---- MODULE Spec2Model ----
(***************************************************************************)
(* ThreadMiner (Sigmabrogz/REDDITMINER): the thread normalizer of          *)
(* lib/reddit.ts.  normalizeThread takes the two raw listings Reddit       *)
(* returns for a thread (post listing, comment listing) and the options    *)
(* depth / minScore / maxComments, and returns the flat comment list and   *)
(* its meta block, or throws.                                              *)
(*                                                                         *)
(* JavaScript values that the code probes dynamically (undefined, '',      *)
(* arrays, objects) are records tagged with the result of typeof (null is  *)
(* tagged "null").                                                         *)
(***************************************************************************)
EXTENDS Integers, Sequences, FiniteSets, TLC

VARIABLES raw, options, flat, result, pc, now, held,
          input, out, localStorage, net,
          store, home, urlInput, panel

vars == <<raw, options, flat, result, pc, now, held,
          input, out, localStorage, net,
          store, home, urlInput, panel>>

\* ------------------------------------------------------------------------
\* Bounds of the explored inputs
\* ------------------------------------------------------------------------
\* most nodes (Comment and More) of an exhaustively explored comment listing
MaxNodes == 3

\* number of nested levels of the reply chains explored besides
MaxChain == 5

\* largest maxComments explored
MaxCap == 2

\* latest instant of the clock in the runs of several calls
MaxClock == 2

\* longest comment body of the CSV export, in characters
MaxBody == 2

\* minutes the cache is observed for
MaxMinutes == 6

\* largest maxRetries of fetchWithRetry
MaxRetries == 2

\* comments of any kind given to analyzeComments, and the length of a run
\* of like comments after them
MaxVaried == 2

MaxRun == 11

\* ------------------------------------------------------------------------
\* JavaScript values
\* ------------------------------------------------------------------------
Undefined == [type |-> "undefined"]

Null == [type |-> "null"]

EmptyString == [type |-> "string", value |-> ""]

Num(n) == [type |-> "number", value |-> n]

Arr(s) == [type |-> "object", items |-> s]

Infinity == [type |-> "number", value |-> 0, infinite |-> TRUE]

Finite(n) == [type |-> "number", value |-> n, infinite |-> FALSE]

\* a > b for a finite number a and a possibly infinite b
GreaterThan(a, b) == IF b.infinite THEN FALSE ELSE a > b.value

\* v is falsy: undefined, null, '', 0
Falsy(v) ==
  \/ v.type = "undefined"
  \/ v.type = "null"
  \/ v.type = "string" /\ v.value = ""
  \/ v.type = "number" /\ v.value = 0

Max(a, b) == IF a > b THEN a ELSE b

\* ------------------------------------------------------------------------
\* Raw Reddit types
\* ------------------------------------------------------------------------
Digit == <<"1", "2", "3", "4", "5", "6", "7", "8", "9">>

ThreadIdOfPost == "abc123"

\* (author, score) of the comments explored: an upvoted comment, a downvoted
\* one, and a downvoted one whose author is deleted
CommentShapes == { <<"alice", 2>>, <<"alice", -1>>, <<"[deleted]", -1>> }

\* (count, children) of the More nodes explored: a declared count, and a
\* count of 0 with the ids of the elided children listed
MoreShapes == { <<3, <<"m1">> >>, <<0, <<"m1", "m2">> >> }

Listing(children) ==
  [type |-> "object", kind |-> "Listing",
   data |-> [type |-> "object", children |-> Arr(children)]]

RawPost(id) ==
  [id |-> id, title |-> "T", author |-> "op", subreddit |-> "a",
   permalink |-> "/r/a/comments/" \o id \o "/"]

RawComment(id, author, score, depth, parent, replies) ==
  [id |-> id, author |-> author, body |-> "text", score |-> score,
   depth |-> depth, parent_id |-> parent, replies |-> replies]

RawMore(count, children, depth, parent) ==
  [count |-> count, children |-> Arr(children), depth |-> depth,
   parent_id |-> parent]

Child(kind, data) == [kind |-> kind, data |-> data]

RECURSIVE NodeCount(_)
\* number of Comment and More nodes in a sequence of children
NodeCount(children) ==
  IF children = <<>> THEN 0
  ELSE LET c == Head(children) IN
       1 + (IF c.kind = "t1" /\ c.data.replies.type = "object"
              THEN NodeCount(c.data.replies.data.children.items) ELSE 0)
         + NodeCount(Tail(children))

RECURSIVE ChildrenSeqs(_, _, _, _, _)
\* every sequence of at most `budget` nodes that can follow sibling number
\* idx-1 in the listing under `parent` at nesting level `depth`; the id of a
\* comment is its path of sibling numbers, its parent_id the fullname of the
\* node that contains it
ChildrenSeqs(budget, depth, parent, prefix, idx) ==
  {<<>>} \cup
  (IF budget = 0 THEN {} ELSE
     { <<Child("more", RawMore(m[1], m[2], depth, parent))>> \o rest :
         m \in MoreShapes,
         rest \in ChildrenSeqs(budget - 1, depth, parent, prefix, idx + 1) }
     \cup
     UNION {
       UNION {
         { <<Child("t1", RawComment(prefix \o Digit[idx], as[1], as[2],
                                    depth, parent, replies))>> \o rest :
             rest \in ChildrenSeqs(
                        budget - 1 -
                          (IF replies.type = "object"
                             THEN NodeCount(replies.data.children.items)
                             ELSE 0),
                        depth, parent, prefix, idx + 1) } :
         replies \in {EmptyString} \cup
           { Listing(ch) :
               ch \in ChildrenSeqs(budget - 1, depth + 1,
                                   "t1_" \o prefix \o Digit[idx],
                                   prefix \o Digit[idx], 1) \ {<<>>} } } :
       as \in CommentShapes })

CommentListings(budget) ==
  { Listing(ch) :
      ch \in ChildrenSeqs(budget, 0, "t3_" \o ThreadIdOfPost, "c", 1) }

RECURSIVE ChainSeqs(_, _, _)
\* the reply chains: at every level one comment followed by one More node,
\* the comment replied to by the next level, down to level MaxChain - 1
ChainSeqs(depth, parent, prefix) ==
  LET id == prefix \o "1"
      more == IF depth % 2 = 0 THEN <<3, <<"m1">> >>
              ELSE <<0, <<"m1", "m2">> >>
  IN { << Child("t1", RawComment(id, as[1], as[2], depth, parent, replies)),
          Child("more", RawMore(more[1], more[2], depth, parent)) >> :
         as \in CommentShapes,
         replies \in
           IF depth >= MaxChain - 1 THEN {EmptyString}
           ELSE { Listing(ch) : ch \in ChainSeqs(depth + 1, "t1_" \o id, id) } }

ChainListings ==
  { Listing(ch) : ch \in ChainSeqs(0, "t3_" \o ThreadIdOfPost, "c") }

\* the comment listing of the documented end-to-end example: c1 (alice, 10)
\* with its reply c2 (bob, 1) and a More node declaring 5 at depth 1
ExampleListing ==
  Listing(<<
    Child("t1", RawComment("c1", "alice", 10, 0, "t3_abc123",
      Listing(<<
        Child("t1", RawComment("c2", "bob", 1, 1, "t1_c1", EmptyString)),
        Child("more", RawMore(5, <<"m1">>, 1, "t1_c1")) >>))) >>)

ValidPostListing == Listing(<<Child("t3", RawPost(ThreadIdOfPost))>>)

\* post listings that violate the contract of normalizeThread
BadPostListings ==
  { Listing(<<>>),
    Listing(<<Child("t1", RawPost(ThreadIdOfPost))>>),
    Listing(<<Child("more", RawPost(ThreadIdOfPost))>>),
    [type |-> "object", kind |-> "Listing", data |-> Undefined],
    [type |-> "object", kind |-> "Listing",
     data |-> [type |-> "object", children |-> Undefined]] }

\* comment listings that are absent or lack data or children
MalformedCommentListings ==
  { Undefined,
    Null,
    [type |-> "object", kind |-> "Listing", data |-> Undefined],
    [type |-> "object", kind |-> "Listing",
     data |-> [type |-> "object", children |-> Undefined]] }

RawPairs ==
  { <<ValidPostListing, cl>> :
      cl \in CommentListings(MaxNodes) \cup ChainListings
               \cup {ExampleListing} \cup MalformedCommentListings }
  \cup (BadPostListings \X CommentListings(1))

DepthLevels == {"top", "level2", "full"}

OptionSets ==
  [depth : DepthLevels,
   maxComments : {Undefined} \cup { Num(n) : n \in 0..MaxCap },
   minScore : {Undefined, Num(0), Num(3)}]

\* ------------------------------------------------------------------------
\* lib/reddit.ts: normalization
\* ------------------------------------------------------------------------
ParseError ==
  [name |-> "RedditAPIError", errorType |-> "parse", statusCode |-> 0,
   message |-> "Invalid thread data: could not find post content."]

\* what reading a property of undefined throws
TypeError == [name |-> "TypeError", errorType |-> "none", statusCode |-> 0,
              message |-> "Cannot read properties of undefined"]

normalizePost(rawPost) ==
  [id |-> rawPost.id, title |-> rawPost.title, author |-> rawPost.author,
   subreddit |-> rawPost.subreddit,
   permalink |-> "https://reddit.com" \o rawPost.permalink]

\* normalizeComment with the body defaulted when the author is absent
normalizeComment_bodyByAuthor(rawComment, threadId) ==
  [id |-> rawComment.id,
   body |-> IF rawComment.author = "" THEN "[deleted]" ELSE rawComment.body,
   author |-> IF rawComment.author = "" THEN "[deleted]" ELSE rawComment.author,
   score |-> rawComment.score,
   parentId |-> rawComment.parent_id,
   threadId |-> threadId,
   depth |-> rawComment.depth]

\* normalizeComment deriving parentId from the thread instead of copying it
normalizeComment_threadParent(rawComment, threadId) ==
  [id |-> rawComment.id,
   body |-> IF rawComment.body = "" THEN "[deleted]" ELSE rawComment.body,
   author |-> IF rawComment.author = "" THEN "[deleted]" ELSE rawComment.author,
   score |-> rawComment.score,
   parentId |-> "t3_" \o threadId,
   threadId |-> threadId,
   depth |-> rawComment.depth]

normalizeComment(rawComment, threadId) ==
  [id |-> rawComment.id,
   body |-> IF rawComment.body = "" THEN "[deleted]" ELSE rawComment.body,
   author |-> IF rawComment.author = "" THEN "[deleted]" ELSE rawComment.author,
   score |-> rawComment.score,
   parentId |-> rawComment.parent_id,
   threadId |-> threadId,
   depth |-> rawComment.depth]

\* maxDepth with the cutoffs of 'top' and 'level2' exchanged
maxDepthOf_swapped(depthFilter) ==
  IF depthFilter = "top" THEN Finite(1)
  ELSE IF depthFilter = "level2" THEN Finite(0) ELSE Infinity

\* maxDepth one level too deep
maxDepthOf_oneDeeper(depthFilter) ==
  IF depthFilter = "top" THEN Finite(1)
  ELSE IF depthFilter = "level2" THEN Finite(2) ELSE Infinity

\* const maxDepth = depthFilter === 'top' ? 0 : depthFilter === 'level2' ? 1 : Infinity
maxDepthOf(depthFilter) ==
  IF depthFilter = "top" THEN Finite(0)
  ELSE IF depthFilter = "level2" THEN Finite(1) ELSE Infinity

\* the two operands exchanged: more.children?.length || more.count || 0
moreContribution_childrenFirst(more) ==
  IF more.children.type # "undefined" /\ Len(more.children.items) # 0
    THEN Len(more.children.items)
  ELSE more.count

\* more.count || more.children?.length || 0
moreContribution(more) ==
  IF more.count # 0 THEN more.count
  ELSE IF more.children.type = "undefined" THEN 0
  ELSE Len(more.children.items)

\* commentData.depth > maxDepth
beyondDepth(commentData, depthFilter) ==
  GreaterThan(commentData.depth, maxDepthOf(depthFilter))

\* the score test without the exemption of deleted authors
belowScore_noExemption(commentData, minScore) ==
  commentData.score < minScore

\* commentData.author !== '[deleted]' && commentData.score < minScore
belowScore(commentData, minScore) ==
  commentData.author # "[deleted]" /\ commentData.score < minScore

\* commentData.replies && typeof commentData.replies !== 'string'
hasReplies(commentData) ==
  ~Falsy(commentData.replies) /\ commentData.replies.type # "string"

\* listing.data?.children (as a condition), listing.data?.children || []
childrenOf(listing) ==
  IF listing.data.type = "undefined" THEN <<>>
  ELSE IF listing.data.children.type = "undefined" THEN <<>>
  ELSE listing.data.children.items

RECURSIVE countNestedComments(_)
countNestedComments(listing) ==
  LET RECURSIVE loop(_, _)
      loop(children, count) ==
        IF children = <<>> THEN count
        ELSE LET child == Head(children) IN
             IF child.kind = "more"
               THEN loop(Tail(children), count + child.data.count)
             ELSE IF child.kind = "t1"
               THEN loop(Tail(children),
                         count + 1 +
                           (IF hasReplies(child.data)
                              THEN countNestedComments(child.data.replies)
                              ELSE 0))
             ELSE loop(Tail(children), count)
  IN loop(childrenOf(listing), 0)

\* the skipped subtree counted once per pass over it, twice in all
skippedCount_twice(commentData) ==
  IF hasReplies(commentData)
    THEN 2 * countNestedComments(commentData.replies) ELSE 0

\* the count added for a comment skipped by the depth filter
skippedCount(commentData) ==
  IF hasReplies(commentData)
    THEN countNestedComments(commentData.replies) ELSE 0

RECURSIVE flattenComments(_, _, _, _)
RECURSIVE processChildren(_, _, _, _, _)

\* the nested replies pushed before the comment itself
retainComment_repliesFirst(commentData, threadId, depthFilter, minScore, acc) ==
  LET own == <<normalizeComment(commentData, threadId)>>
  IN IF hasReplies(commentData)
       THEN LET nested == flattenComments(commentData.replies, threadId,
                                          depthFilter, minScore)
            IN [comments |-> acc.comments \o nested.comments \o own,
                moreCount |-> acc.moreCount + nested.moreCount]
       ELSE [comments |-> acc.comments \o own, moreCount |-> acc.moreCount]

\* comments.push(normalizeComment(..)); then the nested replies
retainComment(commentData, threadId, depthFilter, minScore, acc) ==
  LET pushed == Append(acc.comments, normalizeComment(commentData, threadId))
  IN IF hasReplies(commentData)
       THEN LET nested == flattenComments(commentData.replies, threadId,
                                          depthFilter, minScore)
            IN [comments |-> pushed \o nested.comments,
                moreCount |-> acc.moreCount + nested.moreCount]
       ELSE [comments |-> pushed, moreCount |-> acc.moreCount]

\* a comment dropped by the score filter counted, with its replies, as elided
processChild_countsFiltered(child, threadId, depthFilter, minScore, acc) ==
  IF child.kind = "more"
    THEN [acc EXCEPT !.moreCount = @ + moreContribution(child.data)]
  ELSE IF child.kind = "t1"
    THEN IF beyondDepth(child.data, depthFilter)
           THEN [acc EXCEPT !.moreCount = @ + skippedCount(child.data)]
         ELSE IF belowScore(child.data, minScore)
           THEN [acc EXCEPT !.moreCount = @ + 1 + skippedCount(child.data)]
         ELSE retainComment(child.data, threadId, depthFilter, minScore, acc)
  ELSE acc

\* one round of the for loop of processChildren on `child`
processChild(child, threadId, depthFilter, minScore, acc) ==
  IF child.kind = "more"
    THEN [acc EXCEPT !.moreCount = @ + moreContribution(child.data)]
  ELSE IF child.kind = "t1"
    THEN IF beyondDepth(child.data, depthFilter)
           THEN [acc EXCEPT !.moreCount = @ + skippedCount(child.data)]
         ELSE IF belowScore(child.data, minScore)
           THEN acc
         ELSE retainComment(child.data, threadId, depthFilter, minScore, acc)
  ELSE acc

processChildren(children, threadId, depthFilter, minScore, acc) ==
  IF children = <<>> THEN acc
  ELSE processChildren(Tail(children), threadId, depthFilter, minScore,
         processChild(Head(children), threadId, depthFilter, minScore, acc))

\* the count kept in an accumulator shared by all calls instead of a local
\* of each call
flattenComments_sharedCounter(listing, threadId, depthFilter, minScore) ==
  processChildren(childrenOf(listing), threadId, depthFilter, minScore,
                  [comments |-> <<>>, moreCount |-> flat.moreCount])

\* minScore here is the parameter after its default (minScore: number = 0)
flattenComments(listing, threadId, depthFilter, minScore) ==
  processChildren(childrenOf(listing), threadId, depthFilter, minScore,
                  [comments |-> <<>>, moreCount |-> 0])

\* the default value of flattenComments' parameter minScore
minScoreParam(given) == IF given.type = "undefined" THEN 0 ELSE given.value

\* options.maxComments && comments.length > options.maxComments
overCap(comments, opts) ==
  ~Falsy(opts.maxComments) /\ Len(comments) > opts.maxComments.value

\* the cap keeping the last comments instead of the first
finalCommentsOf_lastOnes(comments, opts) ==
  IF overCap(comments, opts)
    THEN SubSeq(comments, Len(comments) - opts.maxComments.value + 1, Len(comments))
  ELSE comments

\* comments.slice(0, options.maxComments) when over the cap
finalCommentsOf(comments, opts) ==
  IF overCap(comments, opts)
    THEN SubSeq(comments, 1, opts.maxComments.value) ELSE comments

RECURSIVE reduceMaxDepth(_, _)
\* finalComments.reduce((max, c) => Math.max(max, c.depth), 0)
reduceMaxDepth(comments, max) ==
  IF comments = <<>> THEN max
  ELSE reduceMaxDepth(Tail(comments), Max(max, Head(comments).depth))

\* maxDepth taken over the comments before the cap is applied
metaMaxDepthOf_beforeCap(comments, finalComments) == reduceMaxDepth(comments, 0)

\* const maxDepth = finalComments.reduce(.., 0)
metaMaxDepthOf(comments, finalComments) == reduceMaxDepth(finalComments, 0)

\* totalComments taken before the cap is applied
totalCommentsOf_beforeCap(comments, finalComments) == Len(comments)

totalCommentsOf(comments, finalComments) == Len(finalComments)

\* moreCommentsAvailable without the comments cut off by the cap
moreCommentsAvailableOf_noCut(moreCount, comments, finalComments, truncated) ==
  moreCount

moreCommentsAvailableOf(moreCount, comments, finalComments, truncated) ==
  moreCount + (IF truncated THEN Len(comments) - Len(finalComments) ELSE 0)

\* the object normalizeThread returns, from its locals
assemble(thread, walked, opts) ==
  LET comments == walked.comments
      finalComments == finalCommentsOf(comments, opts)
      truncated == overCap(comments, opts)
  IN [type |-> "object",
      thread |-> thread,
      comments |-> finalComments,
      meta |-> [fetchedAt |-> now,
                totalComments |-> totalCommentsOf(comments, finalComments),
                maxDepth |-> metaMaxDepthOf(comments, finalComments),
                depthFilter |-> opts.depth,
                truncated |-> truncated,
                moreCommentsAvailable |->
                  moreCommentsAvailableOf(walked.moreCount, comments,
                                          finalComments, truncated)]]

\* postListing.data.children[0] and the check on it: "TypeError" when a
\* property of undefined is read, "parse" when the child is missing or not a
\* post, "ok" otherwise
postOutcome(postListing) ==
  IF postListing.data.type = "undefined" THEN "TypeError"
  ELSE IF postListing.data.children.type = "undefined" THEN "TypeError"
  ELSE IF postListing.data.children.items = <<>> THEN "parse"
  ELSE IF postListing.data.children.items[1].kind # "t3" THEN "parse"
  ELSE "ok"

threadOf(postListing) == normalizePost(postListing.data.children.items[1].data)

\* the locals { comments, moreCount } of normalizeThread
walkOf(rawPair, opts) ==
  flattenComments(rawPair[2], threadOf(rawPair[1]).id, opts.depth,
                  minScoreParam(opts.minScore))

\* listing.data?.children in flattenComments, on the comment listing:
\* "TypeError" when the listing itself is undefined or null, "ok" otherwise
walkOutcome(commentsListing) ==
  IF commentsListing.type \in {"undefined", "null"} THEN "TypeError" ELSE "ok"

\* the completion of normalizeThread(raw, options): what it returns or throws
normalizeThread(rawPair, opts) ==
  LET outcome == postOutcome(rawPair[1]) IN
  IF outcome = "TypeError" THEN [pc |-> "threw", value |-> TypeError]
  ELSE IF outcome = "parse" THEN [pc |-> "threw", value |-> ParseError]
  ELSE IF walkOutcome(rawPair[2]) = "TypeError"
    THEN [pc |-> "threw", value |-> TypeError]
  ELSE [pc |-> "returned",
        value |-> assemble(threadOf(rawPair[1]), walkOf(rawPair, opts), opts)]

\* ------------------------------------------------------------------------
\* The state machine: one call of normalizeThread on a raw pair
\* ------------------------------------------------------------------------
NoWalk == [comments |-> <<>>, moreCount |-> 0]

\* what normalizeThread never touches: the argument and the output of the
\* export and analysis functions, the browser's localStorage, the network
aside == <<input, out, localStorage, net>>

asideUnused ==
  /\ input = Undefined
  /\ out = Undefined
  /\ localStorage = Undefined
  /\ net = Undefined

\* the page's components: the zustand store, Home, URLInput, InsightsPanel
ui == <<store, home, urlInput, panel>>

uiUnused ==
  /\ store = Undefined
  /\ home = Undefined
  /\ urlInput = Undefined
  /\ panel = Undefined

Init ==
  /\ raw \in RawPairs
  /\ options = Undefined
  /\ flat = NoWalk
  /\ result = Undefined
  /\ pc = "idle"
  /\ now = 0
  /\ held = Undefined
  /\ asideUnused
  /\ uiUnused

Call(opts) ==
  /\ pc = "idle"
  /\ LET done == normalizeThread(raw, opts) IN
       /\ pc' = done.pc
       /\ result' = done.value
       /\ flat' = IF done.pc = "returned" THEN walkOf(raw, opts) ELSE NoWalk
  /\ options' = opts
  /\ UNCHANGED <<raw, now, held>>
  /\ UNCHANGED aside
  /\ UNCHANGED ui

Next == \E opts \in OptionSets : Call(opts)

Spec == Init /\ [][Next]_vars

\* ------------------------------------------------------------------------
\* Several calls of normalizeThread, one after the other, on raw pairs of a
\* pool; `held` remembers one completed call and whether a call with other
\* arguments came after it
\* ------------------------------------------------------------------------
PoolPairs ==
  { <<ValidPostListing, ExampleListing>>,
    <<ValidPostListing, Listing(<<>>)>>,
    <<ValidPostListing, Undefined>>,
    <<Listing(<<>>), ExampleListing>> }

PoolOptions ==
  [depth : DepthLevels,
   maxComments : {Undefined, Num(1)},
   minScore : {Undefined}]

InitCalls ==
  /\ raw \in PoolPairs
  /\ options = Undefined
  /\ flat = NoWalk
  /\ result = Undefined
  /\ pc = "idle"
  /\ now = 0
  /\ held = Undefined
  /\ asideUnused
  /\ uiUnused

\* time passes (new Date() of a later call is later)
Tick ==
  /\ now < MaxClock
  /\ now' = now + 1
  /\ UNCHANGED <<raw, options, flat, result, pc, held>>
  /\ UNCHANGED aside
  /\ UNCHANGED ui

\* a further call, after an earlier one completed
CallNext(rawPair, opts) ==
  /\ pc # "idle"
  /\ LET done == normalizeThread(rawPair, opts) IN
       /\ pc' = done.pc
       /\ result' = done.value
       /\ flat' = IF done.pc = "returned" THEN walkOf(rawPair, opts) ELSE NoWalk
  /\ raw' = rawPair
  /\ options' = opts
  /\ IF held.type = "undefined"
       THEN held' \in { held,
                        [type |-> "call", raw |-> raw, options |-> options,
                         pc |-> pc, result |-> result, others |-> FALSE] }
       ELSE held' = [held EXCEPT !.others =
                       @ \/ <<rawPair, opts>> # <<held.raw, held.options>>]
  /\ UNCHANGED now
  /\ UNCHANGED aside
  /\ UNCHANGED ui

NextCalls ==
  \/ \E opts \in PoolOptions : Call(opts)
  \/ \E rawPair \in PoolPairs, opts \in PoolOptions : CallNext(rawPair, opts)
  \/ Tick

SpecCalls == InitCalls /\ [][NextCalls]_vars

\* ------------------------------------------------------------------------
\* Export to CSV.  A string is the sequence of its characters.
\* ------------------------------------------------------------------------
\* the other variables of a specification that never calls normalizeThread
coreUnused ==
  /\ raw = Undefined
  /\ options = Undefined
  /\ flat = NoWalk
  /\ result = Undefined
  /\ pc = "idle"
  /\ now = 0
  /\ held = Undefined

core == <<raw, options, flat, result, pc, now, held>>

\* String.prototype.includes, for a single character
includes(str, c) == \E i \in 1..Len(str) : str[i] = c

RECURSIVE replaceAll(_, _, _)
\* String.prototype.replace with a global pattern of one character
replaceAll(str, c, by) ==
  IF str = <<>> THEN <<>>
  ELSE (IF Head(str) = c THEN by ELSE <<Head(str)>>) \o replaceAll(Tail(str), c, by)

RECURSIVE join(_, _)
\* Array.prototype.join
join(parts, sep) ==
  IF parts = <<>> THEN <<>>
  ELSE IF Len(parts) = 1 THEN parts[1]
  ELSE parts[1] \o sep \o join(Tail(parts), sep)

DecimalDigits == <<"0", "1", "2", "3", "4", "5", "6", "7", "8", "9">>

RECURSIVE digitsOf(_)
digitsOf(n) ==
  IF n < 10 THEN <<DecimalDigits[n + 1]>>
  ELSE digitsOf(n \div 10) \o <<DecimalDigits[(n % 10) + 1]>>

\* Number.prototype.toString of an integer
toString(n) == IF n < 0 THEN <<"-">> \o digitsOf(0 - n) ELSE digitsOf(n)

headers ==
  << <<"i", "d">>,
     <<"a", "u", "t", "h", "o", "r">>,
     <<"b", "o", "d", "y">>,
     <<"s", "c", "o", "r", "e">>,
     <<"d", "e", "p", "t", "h">>,
     <<"p", "a", "r", "e", "n", "t", "_", "i", "d">>,
     <<"c", "r", "e", "a", "t", "e", "d", "_", "a", "t">>,
     <<"i", "s", "_", "o", "p">>,
     <<"a", "w", "a", "r", "d", "s">>,
     <<"p", "e", "r", "m", "a", "l", "i", "n", "k">> >>

\* const escapeCSV = (str) => ...
escapeCSV(str) ==
  IF includes(str, ",") \/ includes(str, "\"") \/ includes(str, "\n")
    THEN <<"\"">> \o replaceAll(str, "\"", <<"\"", "\"">>) \o <<"\"">>
  ELSE str

\* one element of rows
csvRow(c) ==
  join(<< c.id,
          c.author,
          escapeCSV(replaceAll(c.body, "\n", <<" ">>)),
          toString(c.score),
          toString(c.depth),
          c.parentId,
          c.createdAt,
          IF c.isOP THEN <<"t", "r", "u", "e">> ELSE <<"f", "a", "l", "s", "e">>,
          toString(c.awards),
          c.permalink >>, <<",">>)

toCSV(d) ==
  join(<<join(headers, <<",">>)>>
         \o [i \in 1..Len(d.comments) |-> csvRow(d.comments[i])],
       <<"\n">>)

\* the characters the bodies are made of, and the bodies
BodyChars == {"x", ",", "\"", "\n"}

Bodies == UNION { [1..n -> BodyChars] : n \in 0..MaxBody }

CsvAuthors == { <<"a", "l">>, <<"a", ",", "b">> }

CsvComment(id, parentId, depth, author, body, score, isOP) ==
  [id |-> id, author |-> author, body |-> body, score |-> score,
   depth |-> depth, parentId |-> parentId, createdAt |-> <<"2", "0", "2", "4">>,
   isOP |-> isOP, awards |-> 0, permalink |-> <<"/">> \o id]

\* the first comment varies in every field, a second one is its reply
CsvFirst ==
  { CsvComment(<<"c", "1">>, <<"t", "3", "_", "a">>, 0, a, b, sc, op) :
      a \in CsvAuthors, b \in Bodies, sc \in {0 - 1, 12}, op \in BOOLEAN }

CsvSecond ==
  { CsvComment(<<"c", "2">>, <<"t", "1", "_", "c", "1">>, 1, <<"a", "l">>, b, 3, FALSE) :
      b \in { <<>>, <<"x", "\n">>, <<"\"", ",">> } }

CsvDatas ==
  { [type |-> "data", comments |-> cs] :
      cs \in {<<>>} \cup { <<c>> : c \in CsvFirst }
              \cup { <<c, d>> : c \in CsvFirst, d \in CsvSecond } }

InitCSV ==
  /\ coreUnused
  /\ input \in CsvDatas
  /\ out = Undefined
  /\ localStorage = Undefined
  /\ net = Undefined
  /\ uiUnused

ToCSV ==
  /\ input.type = "data"
  /\ out = Undefined
  /\ out' = [type |-> "csv", text |-> toCSV(input)]
  /\ UNCHANGED <<core, input, localStorage, net>>
  /\ UNCHANGED ui

NextCSV == ToCSV

SpecCSV == InitCSV /\ [][NextCSV]_vars

\* ------------------------------------------------------------------------
\* One call of normalizeThread on comments whose author and body may be
\* absent.  The empty string stands for every absent value (null, undefined,
\* ''): the code reads the two fields only through `|| '[deleted]'` and
\* `!== '[deleted]'`, which do not tell them apart.
\* ------------------------------------------------------------------------
FieldShapes ==
  { [author |-> a, body |-> b, score |-> sc] :
      a \in {"alice", "", "[deleted]"}, b \in {"hi", ""}, sc \in {2, 0 - 1} }

FieldComment(id, shape, depth, parent, replies) ==
  [RawComment(id, shape.author, shape.score, depth, parent, replies)
     EXCEPT !.body = shape.body]

\* c1 with its reply c11, then c2
FieldListings ==
  { Listing(<<
      Child("t1", FieldComment("c1", s1, 0, "t3_" \o ThreadIdOfPost,
        Listing(<<Child("t1", FieldComment("c11", s2, 1, "t1_c1", EmptyString))>>))),
      Child("t1", FieldComment("c2", s3, 0, "t3_" \o ThreadIdOfPost, EmptyString)) >>) :
      s1 \in FieldShapes, s2 \in FieldShapes, s3 \in FieldShapes }

FieldOptions ==
  [depth : {"top", "full"},
   maxComments : {Undefined},
   minScore : {Undefined, Num(3)}]

InitFields ==
  /\ raw \in { <<ValidPostListing, cl>> : cl \in FieldListings }
  /\ options = Undefined
  /\ flat = NoWalk
  /\ result = Undefined
  /\ pc = "idle"
  /\ now = 0
  /\ held = Undefined
  /\ asideUnused
  /\ uiUnused

NextFields == \E opts \in FieldOptions : Call(opts)

SpecFields == InitFields /\ [][NextFields]_vars

\* ------------------------------------------------------------------------
\* The raw tree, read independently of the walk
\* ------------------------------------------------------------------------
RECURSIVE RawPreOrder(_)
\* the Comment nodes under `children`, parent before replies, siblings in
\* listing order
RawPreOrder(children) ==
  IF children = <<>> THEN <<>>
  ELSE LET c == Head(children) IN
       (IF c.kind = "t1"
          THEN <<c.data>> \o
               (IF c.data.replies.type = "object"
                  THEN RawPreOrder(c.data.replies.data.children.items)
                  ELSE <<>>)
          ELSE <<>>)
       \o RawPreOrder(Tail(children))

RECURSIVE RawMores(_)
\* the More nodes under `children`
RawMores(children) ==
  IF children = <<>> THEN <<>>
  ELSE LET c == Head(children) IN
       (IF c.kind = "more" THEN <<c.data>>
        ELSE IF c.kind = "t1" /\ c.data.replies.type = "object"
          THEN RawMores(c.data.replies.data.children.items)
        ELSE <<>>)
       \o RawMores(Tail(children))

\* the children of the raw comment listing, none when it is malformed
RawChildren ==
  IF raw[2].type # "object" THEN <<>>
  ELSE IF raw[2].data.type # "object" THEN <<>>
  ELSE IF raw[2].data.children.type # "object" THEN <<>>
  ELSE raw[2].data.children.items

RawComments == RawPreOrder(RawChildren)

RawMoreNodes == RawMores(RawChildren)

Range(s) == { s[i] : i \in 1..Len(s) }

Ids(s) == { s[i].id : i \in 1..Len(s) }

IdSeq(s) == [i \in 1..Len(s) |-> s[i].id]

RECURSIVE SumSeq(_)
SumSeq(s) == IF s = <<>> THEN 0 ELSE Head(s) + SumSeq(Tail(s))

\* the sum of Op(x) over the elements x of the sequence s
Sum(s, Op(_)) == SumSeq([i \in 1..Len(s) |-> Op(s[i])])

\* what a More node declares: its count, or the number of ids it lists when
\* the count is zero
Declared(more) ==
  IF more.count # 0 THEN more.count ELSE Len(more.children.items)

\* the walk reaches a node when it is top-level or the comment that contains
\* it was retained by the walk
Reached(node) ==
  \/ node.parent_id = "t3_" \o ThreadIdOfPost
  \/ \E id \in Ids(flat.comments) : node.parent_id = "t1_" \o id

\* the depth cutoff as the documentation states it
WithinCutoff(node, depth) ==
  \/ depth = "full"
  \/ depth = "level2" /\ node.depth <= 1
  \/ depth = "top" /\ node.depth = 0

\* the comments of the raw tree inside the subtree of `node`, itself included
RECURSIVE SubtreeSize(_)
SubtreeSize(node) ==
  1 + (IF node.replies.type = "object"
         THEN LET kids == node.replies.data.children.items
                  Size(child) == IF child.kind = "t1"
                                   THEN SubtreeSize(child.data)
                                 ELSE IF child.kind = "more"
                                   THEN child.data.count
                                 ELSE 0
              IN Sum(kids, Size)
         ELSE 0)

Returned == pc = "returned"

\* the same call with another maxComments, with another depth
WithCap(cap) == normalizeThread(raw, [options EXCEPT !.maxComments = cap]).value

WithDepth(d) == normalizeThread(raw, [options EXCEPT !.depth = d]).value

\* ------------------------------------------------------------------------
\* Export to Markdown.  The rendering is kept as the sequence of blocks
\* renderComment appends, each with the comment and the number of '  '
\* prefixes it is indented by.
\* ------------------------------------------------------------------------
\* what can follow the kind prefix of a fullname in this model
Names == {ThreadIdOfPost} \cup { c.id : c \in Range(RawComments) }

\* String.prototype.startsWith
startsWith(str, prefix) == \E rest \in Names : str = prefix \o rest

\* const topLevel = comments.filter(c => c.parentId.startsWith('t3_'))
topLevel(comments) ==
  SelectSeq(comments, LAMBDA c : startsWith(c.parentId, "t3_"))

\* the replies matched by the bare id of the comment
replies_bareId(comments, comment) ==
  SelectSeq(comments, LAMBDA c : c.parentId = comment.id)

\* const replies = comments.filter(c => c.parentId === `t1_${comment.id}`)
replies(comments, comment) ==
  SelectSeq(comments, LAMBDA c : c.parentId = "t1_" \o comment.id)

RECURSIVE renderComment(_, _, _, _)
RECURSIVE renderEach(_, _, _, _)
\* function renderComment(comment, indent = 0); `fuel` bounds the nesting
\* of the calls, a block of type "unfinished" stands for a recursion that
\* would go on
renderComment(comments, comment, indent, fuel) ==
  IF fuel = 0 THEN <<[type |-> "unfinished", comment |-> comment, indent |-> indent]>>
  ELSE <<[type |-> "block", comment |-> comment, indent |-> indent]>>
         \o renderEach(comments, replies(comments, comment), indent + 1, fuel - 1)

\* for (const reply of replies) result += renderComment(reply, indent + 1)
renderEach(comments, list, indent, fuel) ==
  IF list = <<>> THEN <<>>
  ELSE renderComment(comments, Head(list), indent, fuel)
         \o renderEach(comments, Tail(list), indent, fuel)

toMarkdown(d) ==
  renderEach(d.comments, topLevel(d.comments), 0, Len(d.comments) + 1)

ToMarkdown ==
  /\ pc = "returned"
  /\ out = Undefined
  /\ out' = [type |-> "markdown", blocks |-> toMarkdown(result)]
  /\ UNCHANGED <<core, input, localStorage, net>>
  /\ UNCHANGED ui

NextMarkdown ==
  \/ \E opts \in OptionSets : Call(opts)
  \/ ToMarkdown

SpecMarkdown == Init /\ [][NextMarkdown]_vars

\* ------------------------------------------------------------------------
\* The thread cache in localStorage (lib/utils.ts).  The clock `now` counts
\* minutes here.
\* ------------------------------------------------------------------------
Str(v) == [type |-> "string", value |-> v]

\* a JSON document (normalized data, raw response) under a name
Doc(name) == [type |-> "document", name |-> name]

CACHE_VERSION == Str("1")

\* 5 * 60 * 1000 ms, in minutes
CACHE_TTL == 5

\* interface CachedThread
CachedThread(version, timestamp, d, r) ==
  [version |-> version, timestamp |-> Num(timestamp), data |-> d, raw |-> r]

CachedThreadKeys == {"version", "timestamp", "data", "raw"}

\* JSON.stringify of an object: the members whose value is not undefined
JSONstringify(obj) ==
  [type |-> "json",
   members |-> { <<k, obj[k]>> : k \in { f \in DOMAIN obj : obj[f] # Undefined } }]

\* JSON.parse of such a text, read through the properties `keys`: a member
\* the text lacks reads as undefined
JSONparse(text, keys) ==
  [k \in keys |->
     IF \E m \in text.members : m[1] = k
       THEN (CHOOSE m \in text.members : m[1] = k)[2]
     ELSE Undefined]

CacheKeys == {"threadminer:k1", "threadminer:k2"}

\* the results that are cached: data and raw
CachedResults == { <<Doc("d1"), Doc("r1")>>, <<Doc("d2"), Undefined>> }

\* the entry is past its time to live, the limit itself included
expired_atLimit(dateNow, timestamp) == dateNow - timestamp >= CACHE_TTL

\* Date.now() - parsed.timestamp > CACHE_TTL
expired(dateNow, timestamp) == dateNow - timestamp > CACHE_TTL

\* getCachedThread: what it returns and what it leaves in localStorage
getCachedThread(storage, cacheKey, dateNow) ==
  LET cached == storage[cacheKey] IN
    IF cached = Null THEN [value |-> Null, storage |-> storage]
    ELSE LET parsed == JSONparse(cached, CachedThreadKeys) IN
      IF parsed.version # CACHE_VERSION
        THEN [value |-> Null, storage |-> storage]
      ELSE IF expired(dateNow, parsed.timestamp.value)
        THEN [value |-> Null,
              storage |-> [storage EXCEPT ![cacheKey] = Null]]
      ELSE [value |-> [data |-> parsed.data, raw |-> parsed.raw],
            storage |-> storage]

\* setCachedThread: localStorage afterwards; setItem throws when the storage
\* is full or unavailable and the entry is then not written
setCachedThread(storage, cacheKey, d, r, dateNow, setItemThrows) ==
  IF setItemThrows THEN storage
  ELSE [storage EXCEPT ![cacheKey] =
          JSONstringify(CachedThread(CACHE_VERSION, dateNow, d, r))]

\* an entry an earlier release of the page left behind
OlderRelease == JSONstringify(CachedThread(Str("0"), 0, Doc("d1"), Doc("r1")))

InitCache ==
  /\ coreUnused
  /\ localStorage \in [CacheKeys -> {Null, OlderRelease}]
  /\ input = Undefined
  /\ out = Undefined
  /\ net = Undefined
  /\ uiUnused

\* a call setCachedThread(cacheKey, d, r); `input` remembers it
SetCachedThread(cacheKey, d, r, setItemThrows) ==
  /\ localStorage' = setCachedThread(localStorage, cacheKey, d, r, now, setItemThrows)
  /\ input' = [type |-> "set", key |-> cacheKey, data |-> d, raw |-> r,
               at |-> now, stored |-> ~setItemThrows]
  /\ out' = Undefined
  /\ UNCHANGED <<raw, options, flat, result, pc, now, held, net>>
  /\ UNCHANGED ui

\* a call getCachedThread(cacheKey); `out` remembers it, with the entry
\* that getItem returned
GetCachedThread(cacheKey) ==
  /\ LET got == getCachedThread(localStorage, cacheKey, now) IN
       /\ localStorage' = got.storage
       /\ out' = [type |-> "lookup", key |-> cacheKey, at |-> now,
                  found |-> localStorage[cacheKey], value |-> got.value]
  /\ UNCHANGED <<raw, options, flat, result, pc, now, held, input, net>>
  /\ UNCHANGED ui

\* a minute passes
Minute ==
  /\ now < MaxMinutes
  /\ now' = now + 1
  /\ UNCHANGED <<raw, options, flat, result, pc, held, aside>>
  /\ UNCHANGED ui

NextCache ==
  \/ \E k \in CacheKeys, dr \in CachedResults, t \in BOOLEAN :
       SetCachedThread(k, dr[1], dr[2], t)
  \/ \E k \in CacheKeys : GetCachedThread(k)
  \/ Minute

SpecCache == InitCache /\ [][NextCache]_vars

\* ------------------------------------------------------------------------
\* fetchRawThread and fetchWithRetry.  `net` holds the position of the call
\* (fetching: a request is out; waiting: a timer runs; done), the loop
\* variable, and the log of what happened on the network.
\* ------------------------------------------------------------------------
NaN == [type |-> "NaN"]

IsDigit(c) == \E i \in 1..Len(DecimalDigits) : DecimalDigits[i] = c

DigitValue(c) == (CHOOSE i \in 1..Len(DecimalDigits) : DecimalDigits[i] = c) - 1

RECURSIVE digitPrefix(_, _)
\* the value of the leading digits of str, after the value acc
digitPrefix(str, acc) ==
  IF str = <<>> \/ ~IsDigit(Head(str)) THEN acc
  ELSE digitPrefix(Tail(str), 10 * acc + DigitValue(Head(str)))

\* parseInt(str, 10) of a string without sign or leading blanks
parseInt(str) ==
  IF str = <<>> \/ ~IsDigit(Head(str)) THEN NaN ELSE Num(digitPrefix(str, 0))

\* the delay setTimeout applies: a delay that is not a number counts as 0
setTimeoutDelay(ms) == IF ms.type = "NaN" THEN 0 ELSE ms.value

\* retryAfter * 1000, retryAfter = parseInt(headers.get('Retry-After') || '5', 10)
retryAfterMs(header) ==
  LET text == IF header = Null \/ header.value = <<>> THEN <<"5">> ELSE header.value
      retryAfter == parseInt(text)
  IN IF retryAfter.type = "NaN" THEN NaN ELSE Num(retryAfter.value * 1000)

\* the 429 branch taken on the last attempt too
mayRetry_lastToo(attempt, maxRetries) == attempt <= maxRetries

\* response.status === 429 && attempt < maxRetries
mayRetry(attempt, maxRetries) == attempt < maxRetries

RedditAPIError(statusCode, errorType) ==
  [pc |-> "threw", name |-> "RedditAPIError", statusCode |-> statusCode,
   errorType |-> errorType]

\* what fetchRawThread does with the response fetchWithRetry returned
settle(response) ==
  IF ~(response.status \in 200..299)
    THEN CASE response.status = 404 -> RedditAPIError(404, "not_found")
           [] response.status = 403 -> RedditAPIError(403, "forbidden")
           [] response.status = 429 -> RedditAPIError(429, "rate_limit")
           [] OTHER -> RedditAPIError(response.status, "server_error")
  ELSE IF response.body.type = "text" THEN RedditAPIError(0, "parse")
  ELSE IF response.body.type # "array" \/ Len(response.body.items) < 2
    THEN RedditAPIError(0, "parse")
  ELSE [pc |-> "returned", value |-> response.body]

\* the throw after the loop of fetchWithRetry, passed on by fetchRawThread
networkError == RedditAPIError(0, "network")

RetryAfterHeaders == {Null, Str(<<>>), Str(<<"2">>), Str(<<"W", "e", "d">>)}

ResponseBodies ==
  { [type |-> "text"], Doc("object"), Arr(<<Doc("post")>>),
    Arr(<<Doc("post"), Doc("comments")>>) }

Responses ==
  { [status |-> 200, header |-> Null, body |-> b] : b \in ResponseBodies }
  \cup { [status |-> st, header |-> h, body |-> [type |-> "text"]] :
           st \in {429}, h \in RetryAfterHeaders }
  \cup { [status |-> st, header |-> Null, body |-> [type |-> "text"]] :
           st \in {403, 404, 503} }

Event(ev, attempt, detail) == [ev |-> ev, attempt |-> attempt, detail |-> detail]

InitFetch ==
  /\ coreUnused
  /\ input = Undefined
  /\ out = Undefined
  /\ localStorage = Undefined
  /\ \E m \in 0..MaxRetries :
       net = [pc |-> "fetching", attempt |-> 0, maxRetries |-> m,
              log |-> <<Event("request", 0, Undefined)>>,
              outcome |-> Undefined]
  /\ uiUnused

\* await fetch(url, options) resolves
Responds(response) ==
  /\ net.pc = "fetching"
  /\ IF response.status = 429 /\ mayRetry(net.attempt, net.maxRetries)
       THEN net' = [net EXCEPT
              !.pc = "waiting",
              !.log = @ \o <<Event("response", net.attempt, response),
                             Event("wait", net.attempt,
                                   Num(setTimeoutDelay(retryAfterMs(response.header))))>>]
       ELSE net' = [net EXCEPT
              !.pc = "done",
              !.log = Append(@, Event("response", net.attempt, response)),
              !.outcome = settle(response)]
  /\ UNCHANGED <<core, input, out, localStorage>>
  /\ UNCHANGED ui

\* await fetch(url, options) rejects
FetchThrows ==
  /\ net.pc = "fetching"
  /\ IF net.attempt < net.maxRetries
       THEN net' = [net EXCEPT
              !.pc = "waiting",
              !.log = @ \o <<Event("throw", net.attempt, Undefined),
                             Event("wait", net.attempt,
                                   Num(1000 * (net.attempt + 1)))>>]
       ELSE net' = [net EXCEPT
              !.pc = "done",
              !.attempt = @ + 1,
              !.log = Append(@, Event("throw", net.attempt, Undefined)),
              !.outcome = networkError]
  /\ UNCHANGED <<core, input, out, localStorage>>
  /\ UNCHANGED ui

\* the timer of the wait fires: attempt++ and the loop goes on or ends
TimerFires ==
  /\ net.pc = "waiting"
  /\ IF net.attempt + 1 <= net.maxRetries
       THEN net' = [net EXCEPT
              !.pc = "fetching",
              !.attempt = @ + 1,
              !.log = Append(@, Event("request", net.attempt + 1, Undefined))]
       ELSE net' = [net EXCEPT
              !.pc = "done",
              !.attempt = @ + 1,
              !.outcome = networkError]
  /\ UNCHANGED <<core, input, out, localStorage>>
  /\ UNCHANGED ui

NextFetch ==
  \/ \E response \in Responses : Responds(response)
  \/ FetchThrows
  \/ TimerFires

SpecFetch == InitFetch /\ [][NextFetch]_vars

\* every fetch settles and every timer fires
SpecFetchLive == SpecFetch /\ WF_vars(NextFetch)

\* ------------------------------------------------------------------------
\* analyzeComments (pattern-based insights).  A body is given with the
\* patterns of each list that test true on it and the number of hyperbolic
\* words it holds.
\* ------------------------------------------------------------------------
\* the weights of PAIN_PATTERNS, INTENT_PATTERNS, SOLUTION_PATTERNS and
\* SHILL_INDICATORS, in the order of the lists
PAIN_PATTERNS == <<3, 2, 3, 4, 4, 2, 4, 2, 2, 3, 3>>

INTENT_PATTERNS == <<4, 3, 2, 3, 3, 4, 2, 3, 2>>

SOLUTION_PATTERNS == <<2, 3, 2, 2, 3, 2>>

SHILL_INDICATORS == <<5, 2, 4, 4, 3>>

Body(text, pain, intent, solution, shill, hyperbolic) ==
  [text |-> text, pain |-> pain, intent |-> intent, solution |-> solution,
   shill |-> shill, hyperbolic |-> hyperbolic]

AnalysisBodies ==
  { Body("it is broken", {3}, {}, {}, {}, 0),
    Body("I switched to X", {}, {}, {1}, {}, 0),
    Body("use my link for a promo code", {}, {}, {}, {1}, 0),
    Body("full disclosure: I use X", {}, {}, {1}, {2}, 0),
    Body("DM me, I highly recommend X", {}, {3}, {5}, {5}, 0),
    Body("check out my website", {}, {}, {3}, {4}, 0),
    Body("amazing perfect incredible, I use X", {}, {}, {1}, {}, 3),
    Body("amazing perfect incredible awesome fantastic, it solved it",
         {}, {}, {2}, {}, 5) }

\* detectPatterns(body, patterns).score, `matched` being the patterns that
\* test true
detectPatterns(matched, patterns) ==
  SumSeq([i \in 1..Len(patterns) |-> IF i \in matched THEN patterns[i] ELSE 0])

\* detectShillIndicators(body).score
detectShillIndicators(body) ==
  LET score == detectPatterns(body.shill, SHILL_INDICATORS)
      hyperbolicCount == body.hyperbolic
  IN Max(0, IF hyperbolicCount >= 3 THEN score + (hyperbolicCount - 2) ELSE score)

\* Math.log10(Math.max(comment.score, 1) + 1), for the scores 9 and 99
upvoteBoost(score) == IF Max(score, 1) + 1 = 100 THEN 2 ELSE 1

\* twice relevanceScore = signalStrength * (1 + upvoteBoost * 0.5)
relevanceScoreTwice(comment) ==
  LET signalStrength == detectPatterns(comment.body.pain, PAIN_PATTERNS)
                          + detectPatterns(comment.body.intent, INTENT_PATTERNS)
                          + detectPatterns(comment.body.solution, SOLUTION_PATTERNS)
  IN signalStrength * (2 + upvoteBoost(comment.score))

\* the element pushed to `analyzed`
analyze(comment) ==
  [comment |-> comment,
   shillScore |-> detectShillIndicators(comment.body),
   relevanceScore2 |-> relevanceScoreTwice(comment)]

\* Array.prototype.sort with the comparator (a, b) => key(b) - key(a): by
\* descending key, equal keys in their order
sortDescending(list, key(_)) ==
  LET place(i) == Cardinality({ j \in 1..Len(list) : key(list[j]) > key(list[i]) })
                    + Cardinality({ j \in 1..(i - 1) : key(list[j]) = key(list[i]) })
                    + 1
  IN [p \in 1..Len(list) |-> list[CHOOSE i \in 1..Len(list) : place(i) = p]]

\* Array.prototype.slice(0, n)
slice(list, n) == SubSeq(list, 1, IF Len(list) < n THEN Len(list) ELSE n)

\* the filter of solutions without the shill test
isSolution_anyShillScore(a) ==
  detectPatterns(a.comment.body.solution, SOLUTION_PATTERNS) > 0

\* solutionScore > 0 && a.shillScore < 3
isSolution(a) ==
  /\ detectPatterns(a.comment.body.solution, SOLUTION_PATTERNS) > 0
  /\ a.shillScore < 3

\* a.shillScore >= 3
isShillWarning(a) == a.shillScore >= 3

analyzeComments(comments) ==
  LET analyzed == [i \in 1..Len(comments) |-> analyze(comments[i])]
      relevance(a) == a.relevanceScore2
      shillScoreOf(a) == a.shillScore
      intents == slice(sortDescending(
                   SelectSeq(analyzed, LAMBDA a :
                     detectPatterns(a.comment.body.intent, INTENT_PATTERNS) > 0),
                   relevance), 20)
      solutions == slice(sortDescending(SelectSeq(analyzed, isSolution), relevance), 20)
      shillWarnings == slice(sortDescending(SelectSeq(analyzed, isShillWarning),
                                            shillScoreOf), 10)
  IN [type |-> "insights",
      intents |-> intents,
      solutions |-> solutions,
      shillWarnings |-> shillWarnings,
      summary |-> [totalAnalyzed |-> Len(comments),
                   potentialShills |-> Len(shillWarnings)]]

AnalysisComment(n, body, score) ==
  [id |-> n, body |-> body, score |-> score]

\* up to MaxVaried comments of any body and score, then runs of the same
\* self-promotion and of the same plain recommendation
AnalysisInputs ==
  { [i \in 1..(Len(bs) + shills + plain) |->
       IF i <= Len(bs) THEN AnalysisComment(i, bs[i][1], bs[i][2])
       ELSE IF i <= Len(bs) + shills
         THEN AnalysisComment(i, Body("check out my website", {}, {}, {3}, {4}, 0), 9)
       ELSE AnalysisComment(i, Body("I switched to X", {}, {}, {1}, {}, 0), 9)] :
      bs \in UNION { [1..n -> AnalysisBodies \X {9, 99}] : n \in 0..MaxVaried },
      shills \in {0, MaxRun},
      plain \in {0, 2 * MaxRun} }

InitAnalysis ==
  /\ coreUnused
  /\ input \in { [type |-> "comments", comments |-> cs] : cs \in AnalysisInputs }
  /\ out = Undefined
  /\ localStorage = Undefined
  /\ net = Undefined
  /\ uiUnused

AnalyzeComments ==
  /\ input.type = "comments"
  /\ out = Undefined
  /\ out' = analyzeComments(input.comments)
  /\ UNCHANGED <<core, input, localStorage, net>>
  /\ UNCHANGED ui

NextAnalysis == AnalyzeComments

SpecAnalysis == InitAnalysis /\ [][NextAnalysis]_vars

\* ------------------------------------------------------------------------
\* C1. Count conservation: with depth 'full', no minScore and no maxComments,
\* comments.length + meta.moreCommentsAvailable equals the number of Comment
\* nodes of the raw tree plus what its More nodes declare, whatever the
\* scores.  The code drops a comment of negative score (the parameter
\* minScore defaults to 0) without counting it, so this is violated.
\* ------------------------------------------------------------------------
C1_CountConservation ==
  (/\ Returned
   /\ options.depth = "full"
   /\ options.minScore.type = "undefined"
   /\ options.maxComments.type = "undefined")
  => Len(result.comments) + result.meta.moreCommentsAvailable
       = Len(RawComments) + Sum(RawMoreNodes, Declared)

\* ------------------------------------------------------------------------
\* C2. A comment skipped by the depth cutoff adds the size of its whole
\* subtree, itself included, to the elided count; in the documented example
\* depth 'top' gives comments = [c1] and moreCommentsAvailable = 6.  The code
\* adds only the replies of the skipped comment, so this is violated.
\* ------------------------------------------------------------------------
C2_SkippedSubtreeCounted ==
  Returned =>
    /\ LET skipped == SelectSeq(RawComments,
                        LAMBDA c : Reached(c) /\ ~WithinCutoff(c, options.depth))
           mores == SelectSeq(RawMoreNodes, Reached)
       IN flat.moreCount = Sum(skipped, SubtreeSize) + Sum(mores, Declared)
    /\ (raw[2] = ExampleListing /\ options.depth = "top")
         => /\ IdSeq(result.comments) = <<"c1">>
            /\ result.meta.moreCommentsAvailable = 6

\* ------------------------------------------------------------------------
\* C3 as stated: for every cap N >= 0, when the run without cap has M > N
\* comments the result is its first N comments, truncated is true and
\* moreCommentsAvailable is M - N larger; when M <= N nothing changes.
\* maxComments = 0 is not a cap for the code, so this is violated.
\* ------------------------------------------------------------------------
C3_TruncationAnyCap ==
  (Returned /\ options.maxComments.type = "number") =>
    LET N == options.maxComments.value
        U == WithCap(Undefined)
        M == Len(U.comments)
    IN IF M > N
         THEN /\ result.comments = SubSeq(U.comments, 1, N)
              /\ result.meta.truncated = TRUE
              /\ result.meta.moreCommentsAvailable
                   = U.meta.moreCommentsAvailable + (M - N)
         ELSE /\ result.comments = U.comments
              /\ result.meta.truncated = FALSE

\* C3 amended: the same for every cap N >= 1; with maxComments = 0 the
\* result is that of the run without cap.
C3_TruncationPositiveCap ==
  (Returned /\ options.maxComments.type = "number") =>
    LET N == options.maxComments.value
        U == WithCap(Undefined)
        M == Len(U.comments)
    IN IF N >= 1 /\ M > N
         THEN /\ result.comments = SubSeq(U.comments, 1, N)
              /\ Len(result.comments) = N
              /\ result.meta.truncated = TRUE
              /\ result.meta.moreCommentsAvailable
                   = U.meta.moreCommentsAvailable + (M - N)
         ELSE /\ result.comments = U.comments
              /\ result.meta.truncated = FALSE
              /\ result.meta.moreCommentsAvailable
                   = U.meta.moreCommentsAvailable

C3_Witness ==
  /\ Returned
  /\ options.maxComments.type = "number"
  /\ options.maxComments.value >= 1
  /\ Len(flat.comments) > options.maxComments.value
  /\ result.meta.truncated

\* ------------------------------------------------------------------------
\* C4 as stated: for every raw input and every minScore and maxComments,
\* truncating caps included, ids('top') is a subset of ids('level2'), which
\* is a subset of ids('full').  A cap that truncates the deeper run cuts
\* off later top-level comments, so this is violated.
\* ------------------------------------------------------------------------
C4_DepthMonotoneAnyCap ==
  Returned =>
    /\ options.depth = "top"
         => Ids(result.comments) \subseteq Ids(WithDepth("level2").comments)
    /\ options.depth = "level2"
         => Ids(result.comments) \subseteq Ids(WithDepth("full").comments)

\* C4 amended: the subset relation holds whenever maxComments is absent or
\* does not truncate the run with the deeper setting.
C4_DepthMonotoneUntruncated ==
  Returned =>
    /\ (options.depth = "top" /\ ~WithDepth("level2").meta.truncated)
         => Ids(result.comments) \subseteq Ids(WithDepth("level2").comments)
    /\ (options.depth = "level2" /\ ~WithDepth("full").meta.truncated)
         => Ids(result.comments) \subseteq Ids(WithDepth("full").comments)
    /\ (options.depth = "top" /\ ~WithDepth("full").meta.truncated)
         => Ids(result.comments) \subseteq Ids(WithDepth("full").comments)

C4_Witness ==
  /\ Returned
  /\ options.depth = "top"
  /\ options.maxComments.type = "number"
  /\ Len(result.comments) >= 1
  /\ ~WithDepth("level2").meta.truncated
  /\ Len(WithDepth("level2").comments) > Len(result.comments)

ElidedCountedIds ==
  (Ids(flat.comments) \ Ids(result.comments))
  \cup UNION { IF c.replies.type = "object"
                 THEN Ids(RawPreOrder(c.replies.data.children.items))
                 ELSE {} :
               c \in { x \in Range(RawComments) :
                         Reached(x) /\ ~WithinCutoff(x, options.depth) } }

\* ------------------------------------------------------------------------
\* C6. Every retained comment's parentId is the raw node's parent_id, and
\* names the thread or a comment of the raw tree that is itself retained or
\* counted as elided.
\* ------------------------------------------------------------------------
C6_ParentIds ==
  Returned =>
    \A c \in Range(result.comments) :
      /\ \E r \in Range(RawComments) :
           r.id = c.id /\ c.parentId = r.parent_id
      /\ \/ c.parentId = "t3_" \o result.thread.id
         \/ \E p \in Range(RawComments) :
              /\ c.parentId = "t1_" \o p.id
              /\ p.id \in Ids(result.comments) \cup ElidedCountedIds

C6_Witness ==
  /\ Returned
  /\ \E c \in Range(result.comments) :
       /\ c.depth >= 1
       /\ c.parentId # "t3_" \o result.thread.id

\* ------------------------------------------------------------------------
\* C7. The order of the returned comments is the pre-order of the raw tree
\* restricted to the retained comments, for every depth, minScore and
\* maxComments.
\* ------------------------------------------------------------------------
C7_PreOrder ==
  Returned =>
    IdSeq(result.comments)
      = SelectSeq(IdSeq(RawComments),
                  LAMBDA id : id \in Ids(result.comments))

C7_Witness ==
  /\ Returned
  /\ Len(result.comments) >= 3
  /\ \E i, j \in 1..Len(result.comments) :
       i < j /\ result.comments[i].depth > result.comments[j].depth

\* ------------------------------------------------------------------------
\* C8. meta.totalComments equals comments.length of the returned data,
\* after filtering and after truncation.
\* ------------------------------------------------------------------------
C8_TotalComments ==
  Returned => result.meta.totalComments = Len(result.comments)

C8_Witness ==
  /\ Returned
  /\ result.meta.truncated
  /\ Len(result.comments) >= 1
  /\ result.meta.totalComments < Len(flat.comments)

\* ------------------------------------------------------------------------
\* C9. Lower bound: meta.moreCommentsAvailable never exceeds the number of
\* raw comments absent from the output plus what the More nodes declare.
\* ------------------------------------------------------------------------
C9_LowerBound ==
  Returned =>
    result.meta.moreCommentsAvailable
      <= Cardinality(Ids(RawComments) \ Ids(result.comments))
           + Sum(RawMoreNodes, Declared)

C9_Witness ==
  /\ Returned
  /\ result.meta.truncated
  /\ \E c \in Range(RawComments) :
       /\ Reached(c)
       /\ ~WithinCutoff(c, options.depth)
       /\ SubtreeSize(c) > 1
  /\ result.meta.moreCommentsAvailable > 0

\* ------------------------------------------------------------------------
\* C10. A post listing whose first child is missing or is not a post, also
\* one with no data or no children at all, makes normalizeThread fail with
\* the parse error and with no other error.  Reading children of a missing
\* data throws a TypeError instead, so this is violated.
\* ------------------------------------------------------------------------
FirstChildMissingOrNotPost(postListing) ==
  \/ postListing.data.type = "undefined"
  \/ postListing.data.children.type = "undefined"
  \/ postListing.data.children.items = <<>>
  \/ postListing.data.children.items[1].kind # "t3"

C10_ParseErrorOnly ==
  (pc # "idle" /\ FirstChildMissingOrNotPost(raw[1]))
  => /\ pc = "threw"
     /\ result.name = "RedditAPIError"
     /\ result.errorType = "parse"

\* ------------------------------------------------------------------------
\* C11. With a valid post listing and a comment listing that is malformed or
\* absent (undefined or null, without data, without children),
\* normalizeThread returns comments = [], totalComments = 0, maxDepth = 0,
\* truncated = false and moreCommentsAvailable = 0.  For an undefined or
\* null listing flattenComments reads listing.data and throws a TypeError,
\* so this is violated.
\* ------------------------------------------------------------------------
CommentListingMalformed(listing) ==
  \/ listing.type # "object"
  \/ listing.data.type # "object"
  \/ listing.data.children.type # "object"

C11_MalformedCommentsTolerated ==
  (/\ pc # "idle"
   /\ ~FirstChildMissingOrNotPost(raw[1])
   /\ CommentListingMalformed(raw[2]))
  => /\ pc = "returned"
     /\ result.comments = <<>>
     /\ result.meta.totalComments = 0
     /\ result.meta.maxDepth = 0
     /\ result.meta.truncated = FALSE
     /\ result.meta.moreCommentsAvailable = 0

\* ------------------------------------------------------------------------
\* C12. Determinism: a call of normalizeThread on the raw pair and options
\* of an earlier call completes the same way, with the same thread, comments
\* and meta except for meta.fetchedAt, also when calls on other inputs came
\* in between.
\* ------------------------------------------------------------------------
SameButFetchedAt(a, b) ==
  /\ a.thread = b.thread
  /\ a.comments = b.comments
  /\ a.meta.totalComments = b.meta.totalComments
  /\ a.meta.maxDepth = b.meta.maxDepth
  /\ a.meta.depthFilter = b.meta.depthFilter
  /\ a.meta.truncated = b.meta.truncated
  /\ a.meta.moreCommentsAvailable = b.meta.moreCommentsAvailable

SameCallAsHeld ==
  /\ held.type = "call"
  /\ raw = held.raw
  /\ options = held.options

ExampleCall ==
  /\ pc # "idle"
  /\ raw = <<ValidPostListing, ExampleListing>>
  /\ options.depth = "level2"
  /\ options.minScore = Num(0)
  /\ options.maxComments = Undefined

C13_Example ==
  ExampleCall =>
    /\ pc = "returned"
    /\ IdSeq(result.comments) = <<"c1", "c2">>
    /\ result.meta.totalComments = 2
    /\ result.meta.maxDepth = 1
    /\ result.meta.moreCommentsAvailable = 5

C13_Witness ==
  /\ ExampleCall
  /\ pc = "returned"
  /\ result.thread.id = "abc123"
  /\ Len(result.comments) = 2

\* ------------------------------------------------------------------------
\* C14. Depth cutoff: with 'top' every retained comment has depth 0 and with
\* 'level2' depth 0 or 1 (so meta.maxDepth <= 0 resp. <= 1); with 'full' no
\* comment the walk reaches is dropped for its depth (it is retained unless
\* the score filter drops it); the depth of a retained comment is the raw
\* value.
\* ------------------------------------------------------------------------
EffectiveMinScore ==
  IF options.minScore.type = "number" THEN options.minScore.value ELSE 0

C14_DepthCutoff ==
  Returned =>
    /\ options.depth = "top"
         => /\ \A c \in Range(result.comments) : c.depth = 0
            /\ result.meta.maxDepth <= 0
    /\ options.depth = "level2"
         => /\ \A c \in Range(result.comments) : c.depth \in {0, 1}
            /\ result.meta.maxDepth <= 1
    /\ options.depth = "full"
         => \A r \in Range(RawComments) :
              (Reached(r) /\ (r.author = "[deleted]" \/ r.score >= EffectiveMinScore))
                => r.id \in Ids(flat.comments)
    /\ \A c \in Range(result.comments) :
         \E r \in Range(RawComments) : r.id = c.id /\ c.depth = r.depth

C14_Witness ==
  /\ Returned
  /\ options.depth = "level2"
  /\ result.meta.maxDepth = 1
  /\ \E r \in Range(RawComments) : r.depth = 2 /\ Reached(r)

\* ------------------------------------------------------------------------
\* C15. meta.maxDepth is the largest depth among the returned comments,
\* those left after the cap, and 0 when there is none.
\* ------------------------------------------------------------------------
LargestDepth(comments) ==
  IF comments = <<>> THEN 0
  ELSE CHOOSE d \in { c.depth : c \in Range(comments) } :
         \A c \in Range(comments) : c.depth <= d

C15_MaxDepth ==
  Returned => result.meta.maxDepth = LargestDepth(result.comments)

C15_Witness ==
  /\ Returned
  /\ result.meta.truncated
  /\ result.comments # <<>>
  /\ LargestDepth(flat.comments) > result.meta.maxDepth

\* ------------------------------------------------------------------------
\* Standard CSV rules (RFC 4180): records end at a line break outside
\* quotes, fields at a comma outside quotes; a field that starts with a
\* quote runs to the closing quote, a doubled quote inside standing for one.
\* ------------------------------------------------------------------------
\* position i of the text is outside quotes: an even number of quotes
\* precedes it
OutsideQuotes(text, i) ==
  Cardinality({ j \in 1..(i - 1) : text[j] = "\"" }) % 2 = 0

Separators(text, c) ==
  { i \in 1..Len(text) : text[i] = c /\ OutsideQuotes(text, i) }

\* the pieces of the text between the separators at the positions seps
SplitAt(text, seps) ==
  LET starts == {1} \cup { i + 1 : i \in seps }
      startOf(k) == CHOOSE st \in starts :
                      Cardinality({ i \in seps : i < st }) = k - 1
      endOf(st) == (CHOOSE e \in { i \in seps : i >= st } \cup {Len(text) + 1} :
                      \A i \in seps : i >= st => e <= i) - 1
  IN [k \in 1..(Cardinality(seps) + 1) |->
        SubSeq(text, startOf(k), endOf(startOf(k)))]

RECURSIVE Undouble(_)
Undouble(str) ==
  IF Len(str) >= 2 /\ str[1] = "\"" /\ str[2] = "\""
    THEN <<"\"">> \o Undouble(SubSeq(str, 3, Len(str)))
  ELSE IF str = <<>> THEN <<>>
  ELSE <<Head(str)>> \o Undouble(Tail(str))

Unquote(field) ==
  IF field # <<>> /\ field[1] = "\""
    THEN Undouble(SubSeq(field, 2, Len(field) - 1))
  ELSE field

ParseCSV(text) ==
  LET lines == SplitAt(text, Separators(text, "\n"))
      fieldsOf(line) ==
        LET fs == SplitAt(line, Separators(line, ","))
        IN [k \in 1..Len(fs) |-> Unquote(fs[k])]
  IN [n \in 1..Len(lines) |-> fieldsOf(lines[n])]

\* the ten values of a comment as the columns name them
CsvValues(c) ==
  << c.id, c.author, replaceAll(c.body, "\n", <<" ">>), toString(c.score),
     toString(c.depth), c.parentId, c.createdAt,
     IF c.isOP THEN <<"t", "r", "u", "e">> ELSE <<"f", "a", "l", "s", "e">>, toString(c.awards),
     c.permalink >>

CsvRoundTrip ==
  LET parsed == ParseCSV(out.text) IN
    /\ Len(parsed) = 1 + Len(input.comments)
    /\ parsed[1] = headers
    /\ \A i \in 1..Len(input.comments) :
         /\ Len(parsed[i + 1]) = 10
         /\ parsed[i + 1] = CsvValues(input.comments[i])

\* ------------------------------------------------------------------------
\* C16. toCSV emits the header row and one record per comment, columns id,
\* author, body, score, depth, parent_id, created_at, is_op, awards,
\* permalink; body newlines become spaces and any field with a comma, a
\* quote or a newline is quoted, so that parsing the output by standard CSV
\* rules yields 10 fields per record, equal to the comment's values.  Only
\* the body is passed through escapeCSV: an author with a comma splits into
\* two fields, so this is violated.
\* ------------------------------------------------------------------------
C16_CsvRoundTrip ==
  out.type = "csv" => CsvRoundTrip

\* the same for comments whose fields other than the body have no comma,
\* quote or newline
CsvBodyRoundTrip ==
  (/\ out.type = "csv"
   /\ \A c \in Range(input.comments) :
        ~(includes(c.author, ",") \/ includes(c.author, "\"")
            \/ includes(c.author, "\n")))
  => CsvRoundTrip

\* ------------------------------------------------------------------------
\* C17. toMarkdown rebuilds the forest from the flat list: for the data
\* normalizeThread returns from a well-formed raw tree with unique ids the
\* rendering terminates and renders every returned comment exactly once, in
\* the order of data.comments, at a nesting level equal to its depth.
\* ------------------------------------------------------------------------
WellFormedRaw ==
  /\ ~FirstChildMissingOrNotPost(raw[1])
  /\ ~CommentListingMalformed(raw[2])
  /\ Cardinality(Ids(RawComments)) = Len(RawComments)

C17_MarkdownForest ==
  (out.type = "markdown" /\ WellFormedRaw) =>
    /\ \A i \in 1..Len(out.blocks) : out.blocks[i].type = "block"
    /\ [i \in 1..Len(out.blocks) |-> out.blocks[i].comment] = result.comments
    /\ \A i \in 1..Len(out.blocks) :
         out.blocks[i].indent = result.comments[i].depth

C17_Witness ==
  /\ out.type = "markdown"
  /\ WellFormedRaw
  /\ Len(out.blocks) >= 3
  /\ \E i, j \in 1..Len(out.blocks) :
       i < j /\ out.blocks[i].indent = 1 /\ out.blocks[j].indent = 0

\* ------------------------------------------------------------------------
\* C18 as stated.  getCachedThread returns the stored data only while the
\* entry is at most 5 minutes old and of the current version; for an entry
\* older than 5 minutes it returns null and removes the entry; after
\* setCachedThread(key, d, r) a lookup within 5 minutes returns exactly d
\* and r.  An entry of another version is left in place however old it is,
\* and a setCachedThread whose setItem throws stores nothing, so this is
\* violated.
\* ------------------------------------------------------------------------
LookupStep == out' # out /\ out'.type = "lookup"

FoundEntry == JSONparse(out'.found, CachedThreadKeys)

FoundAge == out'.at - FoundEntry.timestamp.value

ReturnsOnlyFresh ==
  out'.value # Null =>
    /\ out'.found # Null
    /\ FoundEntry.version = CACHE_VERSION
    /\ FoundAge <= CACHE_TTL
    /\ out'.value = [data |-> FoundEntry.data, raw |-> FoundEntry.raw]

RemovedForGood ==
  /\ out'.value = Null
  /\ localStorage'[out'.key] = Null
  /\ getCachedThread(localStorage', out'.key, now').value = Null

LastSetOnKey ==
  /\ input.type = "set"
  /\ input.key = out'.key
  /\ out'.at - input.at <= CACHE_TTL

C18_CacheTTL ==
  [][LookupStep =>
       /\ ReturnsOnlyFresh
       /\ (out'.found # Null /\ FoundAge > CACHE_TTL) => RemovedForGood
       /\ LastSetOnKey
            => out'.value = [data |-> input.data, raw |-> input.raw]]_vars

\* C18 amended: the entry older than 5 minutes is removed when it has the
\* current version (one of another version is never returned but stays),
\* and the lookup within 5 minutes returns d and r when setCachedThread
\* stored the entry (setItem did not throw).
C18_CacheTTLStored ==
  [][LookupStep =>
       /\ ReturnsOnlyFresh
       /\ (out'.found # Null /\ FoundAge > CACHE_TTL)
            => IF FoundEntry.version = CACHE_VERSION
                 THEN RemovedForGood
                 ELSE out'.value = Null /\ localStorage' = localStorage
       /\ (LastSetOnKey /\ input.stored)
            => out'.value = [data |-> input.data, raw |-> input.raw]]_vars

C18_Witness ==
  /\ out.type = "lookup"
  /\ input.type = "set" /\ input.stored /\ input.key = out.key
  /\ out.found # Null
  /\ out.at - input.at > CACHE_TTL
  /\ out.value = Null
  /\ localStorage[out.key] = Null

\* ------------------------------------------------------------------------
\* C19. fetchWithRetry issues at most maxRetries + 1 requests, a further
\* one only after a 429 response or a thrown network error and only after
\* the wait (Retry-After seconds, 5 without the header, for a 429;
\* 1000 * (attempt + 1) ms for a network error), returns the first response
\* that is not a 429 without a further request, and always ends: a 429 on
\* the last attempt surfaces from fetchRawThread as the 'rate_limit' error,
\* a network failure on the last attempt as the 'network' error.
\* ------------------------------------------------------------------------
EventsOf(kind) == SelectSeq(net.log, LAMBDA e : e.ev = kind)

AllDigits(str) == str # <<>> /\ \A i \in 1..Len(str) : IsDigit(str[i])

\* the wait the header of a 429 response asks for, in ms
AskedWait(header) ==
  IF header = Null \/ header.value = <<>> THEN 5000
  ELSE digitPrefix(header.value, 0) * 1000

\* the header is absent or empty, or states a number of seconds
PlainHeader(header) ==
  \/ header = Null
  \/ header.value = <<>>
  \/ AllDigits(header.value)

RetryDiscipline ==
  /\ Len(EventsOf("request")) <= net.maxRetries + 1
  /\ \A i \in 2..Len(net.log) :
       /\ net.log[i].ev = "request"
            => /\ i >= 3
               /\ net.log[i - 1].ev = "wait"
               /\ net.log[i - 2].ev \in {"response", "throw"}
               /\ net.log[i - 2].ev = "response" => net.log[i - 2].detail.status = 429
       /\ net.log[i].ev = "wait"
            => /\ net.log[i - 1].ev = "throw"
                    => net.log[i].detail.value = 1000 * (net.log[i].attempt + 1)
               /\ (/\ net.log[i - 1].ev = "response"
                   /\ PlainHeader(net.log[i - 1].detail.header))
                    => net.log[i].detail.value = AskedWait(net.log[i - 1].detail.header)
  /\ \A i \in 1..Len(net.log) :
       (net.log[i].ev = "response" /\ net.log[i].detail.status # 429)
         => /\ i = Len(net.log)
            /\ net.pc = "done"
            /\ net.outcome = settle(net.log[i].detail)

LastAttemptOutcome ==
  net.pc = "done" =>
    LET last == net.log[Len(net.log)] IN
      /\ (last.ev = "response" /\ last.detail.status = 429)
           => /\ last.attempt = net.maxRetries
              /\ net.outcome.pc = "threw"
              /\ net.outcome.errorType = "rate_limit"
      /\ last.ev = "throw"
           => /\ last.attempt = net.maxRetries
              /\ net.outcome.pc = "threw"
              /\ net.outcome.errorType = "network"
      /\ last.ev \in {"response", "throw"}

CommentIds(list) == { list[i].comment.id : i \in 1..Len(list) }

C20_ShillsFiltered ==
  out.type = "insights" =>
    /\ \A c \in Range(input.comments) :
         detectShillIndicators(c.body) >= 3 => c.id \notin CommentIds(out.solutions)
    /\ \A a \in Range(out.solutions) : a.shillScore < 3
    /\ \A a \in Range(out.shillWarnings) : a.shillScore >= 3
    /\ CommentIds(out.solutions) \cap CommentIds(out.shillWarnings) = {}
    /\ Range(out.solutions) \cap Range(out.shillWarnings) = {}
    /\ out.summary.potentialShills = Len(out.shillWarnings)

C20_Witness ==
  /\ out.type = "insights"
  /\ \E a \in Range(out.shillWarnings) :
       detectPatterns(a.comment.body.solution, SOLUTION_PATTERNS) > 0
  /\ \E a \in Range(out.solutions) : a.shillScore = 2
  /\ Len(out.shillWarnings) = 10
  /\ Len(out.solutions) = 20
  /\ out.summary.potentialShills = 10

\* ------------------------------------------------------------------------
\* C21. A comment within the depth cutoff that fails the minScore filter,
\* its author not being "[deleted]", is left out with all its descendants
\* and adds nothing to moreCommentsAvailable: the result is that of the raw
\* tree without its subtree, later siblings being processed as usual.
\* ------------------------------------------------------------------------
RECURSIVE Pruned(_, _)
\* the children without the comment `id` and what it contains
Pruned(children, id) ==
  IF children = <<>> THEN <<>>
  ELSE LET c == Head(children) IN
       (IF c.kind = "t1" /\ c.data.id = id THEN <<>>
        ELSE IF c.kind = "t1" /\ c.data.replies.type = "object"
          THEN <<[c EXCEPT !.data.replies.data.children.items = Pruned(@, id)]>>
        ELSE <<c>>)
       \o Pruned(Tail(children), id)

SubtreeIds(node) ==
  {node.id} \cup (IF node.replies.type = "object"
                    THEN Ids(RawPreOrder(node.replies.data.children.items))
                    ELSE {})

ScoreFiltered(c) ==
  /\ Reached(c)
  /\ WithinCutoff(c, options.depth)
  /\ c.author # "[deleted]"
  /\ c.score < minScoreParam(options.minScore)

C21_FilteredSubtreeGone ==
  Returned =>
    \A c \in Range(RawComments) :
      ScoreFiltered(c) =>
        /\ SubtreeIds(c) \cap Ids(result.comments) = {}
        /\ SubtreeIds(c) \cap Ids(flat.comments) = {}
        /\ normalizeThread(<<raw[1], Listing(Pruned(RawChildren, c.id))>>,
                           options).value = result

C21_Witness ==
  /\ Returned
  /\ \E c \in Range(RawComments) :
       /\ ScoreFiltered(c)
       /\ Cardinality(SubtreeIds(c)) >= 2
       /\ \E d \in Range(result.comments) :
            d.parentId = c.parent_id /\ d.id # c.id

\* ------------------------------------------------------------------------
\* C22. Every More node the walk accounts for adds its declared count, or
\* the length of its children array when the count is absent or zero, and
\* is never in the output; the amount is the same at a retained level and
\* inside a subtree elided by the depth cutoff.  countNestedComments adds
\* more.count || 0 and never looks at the children array, so a More node of
\* count 0 inside a skipped subtree adds nothing: this is violated.
\* ------------------------------------------------------------------------
RECURSIVE ElidedBelow(_)
\* what the replies under `children` of a skipped comment stand for: one per
\* comment, and for a More node what it declares
ElidedBelow(children) ==
  IF children = <<>> THEN 0
  ELSE LET c == Head(children) IN
       (IF c.kind = "more" THEN Declared(c.data)
        ELSE IF c.kind = "t1"
          THEN 1 + (IF c.data.replies.type = "object"
                      THEN ElidedBelow(c.data.replies.data.children.items)
                      ELSE 0)
        ELSE 0)
       + ElidedBelow(Tail(children))

DepthSkipped ==
  SelectSeq(RawComments, LAMBDA c : Reached(c) /\ ~WithinCutoff(c, options.depth))

RepliesElided(c) ==
  IF c.replies.type = "object"
    THEN ElidedBelow(c.replies.data.children.items) ELSE 0

C22_MoreContribution ==
  Returned =>
    /\ flat.moreCount = Sum(SelectSeq(RawMoreNodes, Reached), Declared)
                          + Sum(DepthSkipped, RepliesElided)
    /\ \A c \in Range(result.comments) : c.id \in Ids(RawComments)

\* the same with the More nodes inside a skipped subtree taken at their
\* count alone, as countNestedComments takes them
CountedBelow(c) == SubtreeSize(c) - 1

MoreContributionAsCoded ==
  Returned =>
    flat.moreCount = Sum(SelectSeq(RawMoreNodes, Reached), Declared)
                       + Sum(DepthSkipped, CountedBelow)

\* ------------------------------------------------------------------------
\* C23. A comment of a deleted author is never score-filtered, however the
\* deletion is encoded: a raw comment whose author is absent, emitted with
\* author "[deleted]", is retained below minScore like one whose author is
\* the literal "[deleted]"; no comment dropped by the score filter would
\* have had the normalized author "[deleted]".  The filter compares the raw
\* author with the literal only, so a comment without author is dropped:
\* this is violated.
\* ------------------------------------------------------------------------
LowScored(c) ==
  /\ Reached(c)
  /\ WithinCutoff(c, options.depth)
  /\ c.score < minScoreParam(options.minScore)

C23_DeletedHoweverEncoded ==
  Returned =>
    \A c \in Range(RawComments) :
      LowScored(c) =>
        /\ c.author \in {"", "[deleted]"} => c.id \in Ids(flat.comments)
        /\ c.id \notin Ids(flat.comments)
             => normalizeComment(c, result.thread.id).author # "[deleted]"

\* ------------------------------------------------------------------------
\* C24 as stated: the normalized body is "[deleted]" when the raw author is
\* absent, the normalized author is "[deleted]" when the raw author is
\* absent, a raw comment with an author and a non-empty body keeps both, and
\* defaulting never makes normalizeThread fail.  The body is defaulted from
\* the raw body, not from the author, so this is violated.
\* ------------------------------------------------------------------------
RawOf(c) == CHOOSE r \in Range(RawComments) : r.id = c.id

C24_DefaultByAuthor ==
  pc # "idle" =>
    /\ pc = "returned"
    /\ \A c \in Range(result.comments) :
         /\ RawOf(c).author = "" => c.body = "[deleted]" /\ c.author = "[deleted]"
         /\ (RawOf(c).author # "" /\ RawOf(c).body # "")
              => c.body = RawOf(c).body /\ c.author = RawOf(c).author

\* C24 amended: the normalized body is "[deleted]" when the raw body is
\* absent or empty and is the raw body otherwise, whatever the author; the
\* normalized author is "[deleted]" when the raw author is absent and the
\* raw author otherwise; defaulting never makes normalizeThread fail.
C24_DefaultByField ==
  pc # "idle" =>
    /\ pc = "returned"
    /\ \A c \in Range(result.comments) :
         /\ c.body = IF RawOf(c).body = "" THEN "[deleted]" ELSE RawOf(c).body
         /\ c.author = IF RawOf(c).author = "" THEN "[deleted]" ELSE RawOf(c).author

C24_Witness ==
  /\ pc = "returned"
  /\ \E c, d \in Range(result.comments) :
       /\ RawOf(c).author = "" /\ RawOf(c).body = "hi"
       /\ c.author = "[deleted]" /\ c.body = "hi"
       /\ RawOf(d).author = "alice" /\ RawOf(d).body = ""
       /\ d.body = "[deleted]"

\* ------------------------------------------------------------------------
\* C25. Ancestor closure: for every raw tree, depth, minScore and
\* maxComments, a comment of the output that is contained in another
\* comment of the raw tree has that comment in the output, earlier in
\* data.comments; the cap never keeps a reply and drops its parent.
\* ------------------------------------------------------------------------
PositionOf(id) == CHOOSE i \in 1..Len(result.comments) : result.comments[i].id = id

C25_AncestorClosure ==
  Returned =>
    \A c \in Range(RawComments), p \in Range(RawComments) :
      (c.id \in Ids(result.comments) /\ c.parent_id = "t1_" \o p.id)
        => /\ p.id \in Ids(result.comments)
           /\ PositionOf(p.id) < PositionOf(c.id)

C25_Witness ==
  /\ Returned
  /\ result.meta.truncated
  /\ \E c \in Range(result.comments) : c.depth >= 1
  /\ \E c \in Range(flat.comments) :
       c.depth >= 1 /\ c.id \notin Ids(result.comments)

\* ------------------------------------------------------------------------
\* Thread history in localStorage (lib/utils.ts)
\* ------------------------------------------------------------------------
HISTORY_KEY == "threadminer:history"

MAX_HISTORY == 20

\* the calls of one explored run
MaxAdds == 4

\* interface HistoryItem
HistoryItemKeys == {"url", "title", "subreddit", "commentCount", "minedAt"}

\* the url of thread n
ThreadUrl(n) == [type |-> "string", thread |-> n]

\* new Date().toISOString() at the minute dateNow
toISOString(dateNow) == [type |-> "string", iso |-> dateNow]

\* JSON.stringify and JSON.parse of an array of objects
JSONstringifyArray(list) ==
  [type |-> "json", elements |-> [i \in 1..Len(list) |-> JSONstringify(list[i])]]

JSONparseArray(text, keys) ==
  [i \in 1..Len(text.elements) |-> JSONparse(text.elements[i], keys)]

\* getHistory: the stored array, or [] when nothing is stored
getHistory(storage) ==
  LET history == storage[HISTORY_KEY] IN
    IF history = Null THEN <<>> ELSE JSONparseArray(history, HistoryItemKeys)

\* the duplicate is looked for by title
addToHistory_byTitle(storage, item, dateNow, setItemThrows) ==
  LET history == getHistory(storage)
      Other(h) == h.title # item.title
      filtered == SelectSeq(history, Other)
      unshifted == <<[url |-> item.url, title |-> item.title,
                      subreddit |-> item.subreddit,
                      commentCount |-> item.commentCount,
                      minedAt |-> toISOString(dateNow)]>> \o filtered
      trimmed == slice(unshifted, MAX_HISTORY)
  IN IF setItemThrows THEN storage
     ELSE [storage EXCEPT ![HISTORY_KEY] = JSONstringifyArray(trimmed)]

\* addToHistory: localStorage afterwards; setItem throws when the storage is
\* full or unavailable and the history is then left as it was
addToHistory(storage, item, dateNow, setItemThrows) ==
  LET history == getHistory(storage)
      Other(h) == h.url # item.url
      filtered == SelectSeq(history, Other)
      unshifted == <<[url |-> item.url, title |-> item.title,
                      subreddit |-> item.subreddit,
                      commentCount |-> item.commentCount,
                      minedAt |-> toISOString(dateNow)]>> \o filtered
      trimmed == slice(unshifted, MAX_HISTORY)
  IN IF setItemThrows THEN storage
     ELSE [storage EXCEPT ![HISTORY_KEY] = JSONstringifyArray(trimmed)]

\* clearHistory: localStorage afterwards
clearHistory(storage) == [storage EXCEPT ![HISTORY_KEY] = Null]

\* what is added for thread n: threads 1 and 2 carry the same title, and the
\* comment count is the one of the time of the call
HistoryItemOf(n, count) ==
  [url |-> ThreadUrl(n),
   title |-> Str(IF n <= 2 THEN "T" ELSE "U"),
   subreddit |-> Str("r"),
   commentCount |-> Num(count)]

\* the threads added again: the stored ones at these positions
AgainPositions(history) == {1, 2, Len(history)} \cap (1..Len(history))

\* the history after the first n threads were mined one after the other
RECURSIVE MinedInTurn(_)
MinedInTurn(n) ==
  IF n = 0 THEN [k \in {HISTORY_KEY} |-> Null]
  ELSE addToHistory(MinedInTurn(n - 1), HistoryItemOf(n, 1), 0, FALSE)

\* the page opens on no history or on one of MAX_HISTORY - 2 threads
InitHistory ==
  /\ coreUnused
  /\ uiUnused
  /\ \E n \in {0, MAX_HISTORY - 2} :
       /\ localStorage = MinedInTurn(n)
       /\ input = [type |-> "none", calls |-> 0, threads |-> n]
  /\ out = Undefined
  /\ net = Undefined

\* a call addToHistory(item); `input` remembers it with the history it found
AddToHistory(item, setItemThrows, fresh) ==
  /\ input.calls < MaxAdds
  /\ localStorage' = addToHistory(localStorage, item, now, setItemThrows)
  /\ input' = [type |-> "add", item |-> item, stored |-> ~setItemThrows,
               before |-> getHistory(localStorage),
               calls |-> input.calls + 1,
               threads |-> IF fresh THEN input.threads + 1 ELSE input.threads]
  /\ UNCHANGED <<core, out, net>>
  /\ UNCHANGED ui

\* a thread never mined before
AddNew(setItemThrows) ==
  AddToHistory(HistoryItemOf(input.threads + 1, 1), setItemThrows, TRUE)

\* a thread of the history mined again, with one comment more
AddAgain ==
  \E p \in AgainPositions(getHistory(localStorage)) :
    LET h == getHistory(localStorage)[p] IN
      AddToHistory([url |-> h.url, title |-> h.title, subreddit |-> h.subreddit,
                    commentCount |-> Num(h.commentCount.value + 1)],
                   FALSE, FALSE)

\* a call clearHistory()
ClearHistory ==
  /\ input.calls < MaxAdds
  /\ localStorage' = clearHistory(localStorage)
  /\ input' = [type |-> "clear", before |-> getHistory(localStorage),
               calls |-> input.calls + 1, threads |-> input.threads]
  /\ UNCHANGED <<core, out, net>>
  /\ UNCHANGED ui

NextHistory ==
  \/ \E t \in BOOLEAN : AddNew(t)
  \/ AddAgain
  \/ ClearHistory

SpecHistory == InitHistory /\ [][NextHistory]_vars

\* ------------------------------------------------------------------------
\* Claims on the thread history
\* ------------------------------------------------------------------------
Stored == getHistory(localStorage)

Urls(history) == { history[i].url : i \in 1..Len(history) }

IndexOfUrl(history, url) == CHOOSE i \in 1..Len(history) : history[i].url = url

SameOrder(before, after) ==
  \A a \in Urls(after), b \in Urls(after) :
    (a \in Urls(before) /\ b \in Urls(before))
      => (IndexOfUrl(after, a) < IndexOfUrl(after, b)
            <=> IndexOfUrl(before, a) < IndexOfUrl(before, b))

\* the history is short enough and names no thread twice
Bounded(stored) ==
  /\ Len(stored) <= MAX_HISTORY
  /\ \A i, j \in 1..Len(stored) : stored[i].url = stored[j].url => i = j

\* `stored` is `before` with the item moved or put to the front and the
\* entries beyond MAX_HISTORY dropped from the end
ItemFirst(stored, before, item) ==
  /\ stored # <<>>
  /\ stored[1].url = item.url
  /\ stored[1].commentCount = item.commentCount
  /\ Urls(Tail(stored)) \subseteq Urls(before) \ {item.url}
  /\ SameOrder(before, Tail(stored))
  /\ \A i \in 1..Len(before) :
       (before[i].url \notin Urls(stored))
         => /\ Len(stored) = MAX_HISTORY
            /\ \A j \in 1..Len(before) :
                 before[j].url \in Urls(Tail(stored)) => j < i

\* C28 as stated.  The thread history is a bounded most-recently-used list:
\* after any calls of addToHistory and clearHistory the stored history has
\* at most 20 entries, no two of them with the same url; the item of the
\* last addToHistory is first and the entries after it are the earlier ones
\* in their earlier order; clearHistory leaves the history empty.
C28_BoundedMRU ==
  LET stored == Stored IN
    /\ Bounded(stored)
    /\ input.type = "add" => ItemFirst(stored, input.before, input.item)
    /\ input.type = "clear" => stored = <<>>

\* C28 amended.  The same, for the calls of addToHistory that wrote the
\* history; a call whose setItem throws (storage full or unavailable)
\* leaves the stored history as it was.
C28_BoundedMRUStored ==
  LET stored == Stored IN
    /\ Bounded(stored)
    /\ (input.type = "add" /\ input.stored)
         => ItemFirst(stored, input.before, input.item)
    /\ (input.type = "add" /\ ~input.stored) => stored = input.before
    /\ input.type = "clear" => stored = <<>>

\* a full history took a new thread and lost its oldest entry, after an
\* entry from the middle had been added again
C28_Witness ==
  /\ input.type = "add" /\ input.stored
  /\ Len(input.before) = MAX_HISTORY
  /\ input.item.url \notin Urls(input.before)
  /\ LET stored == Stored IN
       /\ input.before[MAX_HISTORY].url \notin Urls(stored)
       /\ \E i \in 1..(Len(stored) - 1) :
            stored[i].url.thread < stored[i + 1].url.thread

\* ------------------------------------------------------------------------
\* The page (app/page.tsx), its store (lib/store.ts) and the URL input
\* (components/url-input.tsx).  The text of the URL field is the sequence of
\* its characters; the names of depths, sorts and formats are strings.
\* ------------------------------------------------------------------------
Letters ==
  <<"a", "b", "c", "d", "e", "f", "g", "h", "i", "j", "k", "l", "m", "n",
    "o", "p", "q", "r", "s", "t", "u", "v", "w", "x", "y", "z">>

\* String.prototype.charCodeAt for the characters of the texts explored
charCodeAt(c) ==
  IF \E i \in 1..26 : Letters[i] = c
    THEN 96 + (CHOOSE i \in 1..26 : Letters[i] = c)
  ELSE IF \E i \in 1..10 : DecimalDigits[i] = c
    THEN 47 + (CHOOSE i \in 1..10 : DecimalDigits[i] = c)
  ELSE IF c = ":" THEN 58
  ELSE IF c = "/" THEN 47
  ELSE IF c = "." THEN 46
  ELSE 95

\* the characters of the names that are put into a template literal
chars(name) ==
  CASE name = "top" -> <<"t", "o", "p">>
    [] name = "level2" -> <<"l", "e", "v", "e", "l", "2">>
    [] name = "full" -> <<"f", "u", "l", "l">>
    [] name = "best" -> <<"b", "e", "s", "t">>
    [] name = "new" -> <<"n", "e", "w">>

\* hash * factor + added in 32 bits, the hash in two 16-bit halves
timesPlus(hash, factor, added) ==
  LET low == factor * hash.lo + added IN
    [lo |-> low % 65536,
     hi |-> (factor * hash.hi + (low \div 65536)) % 65536]

\* the 32-bit hash after the first n characters:
\* hash = ((hash << 5) - hash) + char; hash = hash & hash
\* (three characters at a time where n allows it)
RECURSIVE hashAfter(_, _)
hashAfter(str, n) ==
  IF n = 0 THEN [hi |-> 0, lo |-> 0]
  ELSE IF n % 3 # 0
    THEN timesPlus(hashAfter(str, n - 1), 31, charCodeAt(str[n]))
  ELSE timesPlus(hashAfter(str, n - 3), 31 * 31 * 31,
                 31 * 31 * charCodeAt(str[n - 2]) + 31 * charCodeAt(str[n - 1])
                   + charCodeAt(str[n]))

\* Math.abs of the 32-bit integer in two halves; hi = 32768 for 2^31
abs(hash) ==
  IF hash.hi < 32768 THEN hash
  ELSE IF hash.lo = 0 THEN [hi |-> 65536 - hash.hi, lo |-> 0]
  ELSE [hi |-> 65535 - hash.hi, lo |-> 65536 - hash.lo]

Base36 ==
  <<"0", "1", "2", "3", "4", "5", "6", "7", "8", "9", "a", "b", "c", "d",
    "e", "f", "g", "h", "i", "j", "k", "l", "m", "n", "o", "p", "q", "r",
    "s", "t", "u", "v", "w", "x", "y", "z">>

\* Number.prototype.toString(36) of a natural number
RECURSIVE toString36(_)
toString36(n) ==
  IF n < 36 THEN Base36[n + 1]
  ELSE toString36(n \div 36) \o Base36[(n % 36) + 1]

\* hashString: the hash of the text in base 36
hashString(str) ==
  LET hash == abs(hashAfter(str, Len(str))) IN
    IF hash.hi = 32768 THEN "zik0zk"
    ELSE toString36(hash.hi * 65536 + hash.lo)

\* createCacheKey: `threadminer:${hashString(`${url}:${depth}:${sort}`)}`
createCacheKey(url, depth, sort) ==
  "threadminer:" \o hashString(url \o <<":">> \o chars(depth) \o <<":">> \o chars(sort))

\* the store of lib/store.ts
initialState ==
  [url |-> <<>>, format |-> "clean", depth |-> "level2", sort |-> "best",
   maxComments |-> 500, minScore |-> 0,
   isLoading |-> FALSE, loadingStep |-> "idle", progress |-> 0,
   rawData |-> Null, normalizedData |-> Null, insightsData |-> Null,
   error |-> Null]

setUrl(st, url) == [st EXCEPT !.url = url, !.error = Null]

setFormat(st, format) == [st EXCEPT !.format = format]

setDepth(st, depth) == [st EXCEPT !.depth = depth]

setSort(st, sort) == [st EXCEPT !.sort = sort]

setMaxComments(st, maxComments) == [st EXCEPT !.maxComments = maxComments]

setMinScore(st, minScore) == [st EXCEPT !.minScore = minScore]

\* setLoading that leaves the step as it was
setLoading_keepsStep(st, isLoading, step) ==
  [st EXCEPT !.isLoading = isLoading,
             !.error = IF isLoading THEN Null ELSE Undefined]

setLoading(st, isLoading, step) ==
  [st EXCEPT !.isLoading = isLoading, !.loadingStep = step,
             !.error = IF isLoading THEN Null ELSE Undefined]

setResults(st, rawData, normalizedData) ==
  [st EXCEPT !.rawData = rawData, !.normalizedData = normalizedData,
             !.isLoading = FALSE, !.loadingStep = "idle", !.progress = 100]

setError(st, error) ==
  [st EXCEPT !.error = error, !.isLoading = FALSE, !.loadingStep = "idle",
             !.progress = 0]

reset(st) == initialState

\* the texts typed into the URL field: two threads
ThreadUrls ==
  { <<"h", "t", "t", "p", "s", ":", "/", "/", "r", "e", "d", "d", "i", "t", ".", "c", "o", "m", "/", "r", "/", "a", "/", "c", "o", "m", "m", "e", "n", "t", "s", "/", "b", "1">>,
    <<"h", "t", "t", "p", "s", ":", "/", "/", "r", "e", "d", "d", "i", "t", ".", "c", "o", "m", "/", "r", "/", "a", "/", "c", "o", "m", "m", "e", "n", "t", "s", "/", "b", "2">> }

\* isValidRedditUrl, the test of
\* /^https?:\/\/(www\.|old\.|new\.)?reddit\.com\/r\/[\w]+\/comments\/[\w]+/
WordChar(c) ==
  \/ \E i \in 1..26 : Letters[i] = c
  \/ \E i \in 1..10 : DecimalDigits[i] = c
  \/ c = "_"

startsWithAt(str, at, prefix) ==
  /\ at + Len(prefix) - 1 <= Len(str)
  /\ \A i \in 1..Len(prefix) : str[at + i - 1] = prefix[i]

\* the position after the longest run of word characters from `at`
afterWord(str, at) ==
  CHOOSE e \in at..(Len(str) + 1) :
    /\ \A i \in at..(e - 1) : WordChar(str[i])
    /\ e = Len(str) + 1 \/ ~WordChar(str[e])

isValidRedditUrl(url) ==
  \E scheme \in { <<"h", "t", "t", "p", ":", "/", "/">>, <<"h", "t", "t", "p", "s", ":", "/", "/">> },
     host \in { <<>>, <<"w", "w", "w", ".">>, <<"o", "l", "d", ".">>, <<"n", "e", "w", ".">> } :
    LET lead == scheme \o host \o <<"r", "e", "d", "d", "i", "t", ".", "c", "o", "m", "/", "r", "/">>
        sub == Len(lead) + 1
        mid == afterWord(url, sub)
        id == mid + Len(<<"/", "c", "o", "m", "m", "e", "n", "t", "s", "/">>)
    IN /\ startsWithAt(url, 1, lead)
       /\ mid > sub
       /\ startsWithAt(url, mid, <<"/", "c", "o", "m", "m", "e", "n", "t", "s", "/">>)
       /\ afterWord(url, id) > id

\* the choices of the form that are explored, the defaults among them
Formats == {"clean", "insights"}

Depths == {"level2", "top"}

Sorts == {"best", "new"}

MaxCommentsChoices == {500, 50}

MinScoreChoices == {0, 2}

\* how many times the Mine button is pressed, and how many times an option
\* of the form is changed, in one explored run
MaxMines == 2

MaxChanges == 1

\* what Reddit holds for the thread at `url`, in the order `sort`
RedditThread(url, sort) ==
  LET id == url[Len(url) - 1] \o url[Len(url)]
      first == Child("t1", RawComment("c1", "alice", 5, 0, "t3_" \o id,
                 Listing(<<Child("t1", RawComment("c11", "bob", 1, 1, "t1_c1",
                                                  EmptyString))>>)))
      second == Child("t1", RawComment("c2", "carol", 1, 0, "t3_" \o id,
                                       EmptyString))
  IN <<Listing(<<Child("t3", RawPost(id))>>),
       Listing(IF sort = "new" THEN <<second, first>> ELSE <<first, second>>)>>

\* an array of two elements that is no Reddit response
NoThread == <<Listing(<<>>), Listing(<<>>)>>

\* the options handed to normalizeThread, by the page and by the server
optionsOf(request) ==
  [depth |-> request.depth, maxComments |-> Num(request.maxComments),
   minScore |-> Num(request.minScore)]

\* the keys of localStorage the page can touch
PageKeys ==
  {HISTORY_KEY} \cup { createCacheKey(u, d, srt) :
                         u \in ThreadUrls, d \in Depths, srt \in Sorts }

\* URLInput when it is not rendered, and right after it was mounted:
\* useState(url), useDebounce's useState(value), and the effect that syncs
\* the debounced URL to the store, still to run.  The timer of useDebounce
\* changes something when it fires with localUrl # debouncedUrl.
NotMounted ==
  [mounted |-> FALSE, localUrl |-> <<>>, debouncedUrl |-> <<>>,
   effect |-> FALSE]

URLInput(st) ==
  [mounted |-> TRUE, localUrl |-> st.url, debouncedUrl |-> st.url,
   effect |-> TRUE]

\* the form is rendered: !showResults and !store.isLoading
FormShown(hm, st) == ~hm.showResults /\ ~st.isLoading

\* URLInput after a render of Home that followed a change of the store
rendered(ui0, hm0, st0, hm1, st1) ==
  IF ~FormShown(hm1, st1) THEN NotMounted
  ELSE IF FormShown(hm0, st0) THEN ui0
  ELSE URLInput(st1)

\* the cache-check effect of Home, which runs when url, depth, sort or
\* isLoading changed: fromCache and localStorage afterwards
cacheCheck(st0, st1, fromCache, storage, dateNow) ==
  IF /\ st0.url = st1.url /\ st0.depth = st1.depth /\ st0.sort = st1.sort
     /\ st0.isLoading = st1.isLoading
    THEN [fromCache |-> fromCache, storage |-> storage]
  ELSE IF st1.url # <<>> /\ ~st1.isLoading
    THEN LET got == getCachedThread(storage,
                      createCacheKey(st1.url, st1.depth, st1.sort), dateNow)
         IN [fromCache |-> got.value # Null, storage |-> got.storage]
  ELSE [fromCache |-> FALSE, storage |-> storage]

\* handleMine when it does not run
Idle == [pc |-> "idle", snap |-> Null, cacheKey |-> Null, result |-> Null,
         serverFailed |-> FALSE, i |-> 0, lastError |-> Null]

\* the settings a thread is fetched and normalized under
settingsOf(st) ==
  [url |-> st.url, depth |-> st.depth, sort |-> st.sort,
   maxComments |-> st.maxComments, minScore |-> st.minScore]

\* the page after construction, the effects of the first render still to
\* run.  `input` counts the presses and changes of the run and remembers,
\* for every key, the settings of the mine that wrote the cached entry.
InitMine ==
  /\ coreUnused
  /\ store = initialState
  /\ home = [showResults |-> FALSE, fromCache |-> FALSE, mine |-> Idle]
  /\ urlInput = URLInput(initialState)
  /\ panel = Undefined
  /\ localStorage = [k \in PageKeys |-> Null]
  /\ net = Undefined
  /\ input = [mines |-> 0, changes |-> 0,
              under |-> [k \in PageKeys \ {HISTORY_KEY} |-> Null]]
  /\ out = Undefined

\* one step of the page: the store, Home, localStorage and the request in
\* flight after it; URLInput and fromCache follow from the render
Step(st, hm, storage, request, ui0) ==
  LET checked == cacheCheck(store, st, hm.fromCache, storage, now)
      hm1 == [hm EXCEPT !.fromCache = checked.fromCache]
  IN /\ store' = st
     /\ home' = hm1
     /\ localStorage' = checked.storage
     /\ net' = request
     /\ urlInput' = rendered(ui0, home, store, hm1, st)
     /\ UNCHANGED <<core, panel>>

\* handleMine ends in the catch block of lines 226-232 or 268-271, or in
\* the check of lines 235-239
fails(st, hm, message) ==
  [store |-> setError(setLoading(st, FALSE, "idle"), Str(message)),
   home |-> [hm EXCEPT !.mine = Idle],
   request |-> Undefined,
   wrote |-> FALSE]

\* lines 247-259 of handleMine: cache, history, results; setItem throws
\* when localStorage is full or unavailable
finishes(st, hm, storage, setItemThrows) ==
  LET m == hm.mine
      d == m.result.data
      cached == setCachedThread(storage, m.cacheKey, d, m.result.raw, now,
                                setItemThrows)
      listed == addToHistory(cached,
                  [url |-> Str(d.thread.permalink),
                   title |-> Str(d.thread.title),
                   subreddit |-> Str(d.thread.subreddit),
                   commentCount |-> Num(d.meta.totalComments)],
                  now, setItemThrows)
  IN [store |-> setResults(st, m.result.raw, d),
      home |-> [hm EXCEPT !.mine = Idle, !.showResults = TRUE],
      storage |-> listed,
      request |-> Undefined,
      wrote |-> ~setItemThrows]

\* lines 235-259 of handleMine, with the result of the fetch in hm.mine
\* the timer of line 244
timerRequest == [to |-> "setTimeout", body |-> Null]

settles(st, hm, storage, setItemThrows) ==
  IF hm.mine.result.data.type \in {"undefined", "null"}
    THEN [storage |-> storage] @@
         fails(st, hm, "Failed to fetch thread. Please try again.")
  ELSE IF hm.mine.snap.format = "insights"
    THEN [store |-> setLoading(st, TRUE, "analyzing"),
          home |-> [hm EXCEPT !.mine.pc = "analyzing"],
          storage |-> storage,
          request |-> timerRequest,
          wrote |-> FALSE]
  ELSE finishes(st, hm, storage, setItemThrows)

\* `input` after a step of handleMine: the settings of the entry it wrote
wrote(hm, after) ==
  IF after.wrote
    THEN [input EXCEPT !.under[hm.mine.cacheKey] =
            [f \in DOMAIN settingsOf(store) |-> hm.mine.snap[f]]]
  ELSE input

\* the body of the request to /api/fetch-thread, and the proxy asked
serverRequest(snap) ==
  [to |-> "/api/fetch-thread", body |-> [f \in DOMAIN settingsOf(store) |-> snap[f]]]

proxies == <<"codetabs", "allorigins/get", "corsproxy", "allorigins/raw">>

proxyRequest(i) == [to |-> proxies[i], body |-> Null]

\* MineButton's onClick: handleMine up to its return on a cache hit or to
\* its first await
Click ==
  /\ FormShown(home, store)
  /\ ~urlInput.effect
  /\ isValidRedditUrl(store.url)
  /\ input.mines < MaxMines
  /\ LET cacheKey == createCacheKey(store.url, store.depth, store.sort)
         got == getCachedThread(localStorage, cacheKey, now)
     IN IF got.value # Null
          THEN /\ Step(setResults(store, got.value.raw, got.value.data),
                       [home EXCEPT !.showResults = TRUE, !.fromCache = TRUE],
                       got.storage, Undefined, urlInput)
               /\ out' = [type |-> "hit", key |-> cacheKey,
                          settings |-> settingsOf(store),
                          under |-> input.under[cacheKey]]
        ELSE /\ Step(setLoading(store, TRUE, "fetching"),
                     [home EXCEPT !.fromCache = FALSE,
                        !.mine = [Idle EXCEPT !.pc = "server",
                                    !.snap = settingsOf(store) @@
                                               [format |-> store.format],
                                    !.cacheKey = cacheKey]],
                     got.storage, serverRequest(store), urlInput)
             /\ out' = Undefined
  /\ input' = [input EXCEPT !.mines = @ + 1]

\* what the server answers: the thread normalized under the request, a
\* success without data, an error, or no answer that can be read
ServerOutcomes == {"success", "nodata", "error", "throws"}

ServerResponds(outcome, setItemThrows) ==
  /\ home.mine.pc = "server"
  /\ IF outcome \in {"error", "throws"}
       THEN /\ Step(setLoading(store, TRUE, "fetching"),
                    [home EXCEPT !.mine.pc = "proxy", !.mine.serverFailed = TRUE,
                                 !.mine.i = 1],
                    localStorage, proxyRequest(1), urlInput)
            /\ input' = input
     ELSE LET thread == RedditThread(net.body.url, net.body.sort)
              fetched ==
                IF outcome = "success"
                  THEN [raw |-> Arr(thread),
                        data |-> normalizeThread(thread, optionsOf(net.body)).value]
                ELSE [raw |-> Undefined, data |-> Undefined]
              hm == [home EXCEPT !.mine.result = fetched]
              after == settles(store, hm, localStorage, setItemThrows)
          IN /\ Step(after.store, after.home, after.storage, after.request, urlInput)
             /\ input' = wrote(hm, after)
  /\ out' = out

\* what a proxy answers: a response that makes the loop go on, a fetch that
\* throws, the thread, or another array of two elements
ProxyOutcomes == {"notOk", "html", "notJson", "notPair", "throws", "thread", "other"}

ProxyResponds(outcome, setItemThrows) ==
  /\ home.mine.pc = "proxy"
  /\ LET m == home.mine IN
     IF outcome \in {"notOk", "html", "notJson", "notPair", "throws"}
       THEN LET lastError == IF outcome = "throws" THEN Str("Failed to fetch")
                             ELSE m.lastError
            IN IF m.i < Len(proxies)
                 THEN /\ Step(store,
                              [home EXCEPT !.mine.i = m.i + 1,
                                           !.mine.lastError = lastError],
                              localStorage, proxyRequest(m.i + 1), urlInput)
                      /\ input' = input
               ELSE LET after ==
                          fails(store, home,
                                IF lastError # Null THEN lastError.value
                                ELSE "All fetch methods failed. Reddit may be blocking requests. Please try again later.")
                    IN /\ Step(after.store, after.home, localStorage, Undefined,
                               urlInput)
                       /\ input' = input
     ELSE LET thread == IF outcome = "thread"
                          THEN RedditThread(m.snap.url, m.snap.sort)
                        ELSE NoThread
              st == setLoading(store, TRUE, "normalizing")
              normalized == normalizeThread(thread, optionsOf(m.snap))
          IN IF normalized.pc = "threw"
               THEN LET after == fails(st, home, normalized.value.message)
                    IN /\ Step(after.store, after.home, localStorage, Undefined,
                               urlInput)
                       /\ input' = input
             ELSE LET hm == [home EXCEPT !.mine.result =
                               [raw |-> Arr(thread), data |-> normalized.value]]
                      after == settles(st, hm, localStorage, setItemThrows)
                  IN /\ Step(after.store, after.home, after.storage,
                             after.request, urlInput)
                     /\ input' = wrote(hm, after)
  /\ out' = out

\* the timer of the 'analyzing' step fires
AnalyzingDone(setItemThrows) ==
  /\ home.mine.pc = "analyzing"
  /\ LET after == finishes(store, home, localStorage, setItemThrows)
     IN /\ Step(after.store, after.home, after.storage, after.request, urlInput)
        /\ input' = wrote(home, after)
  /\ out' = out

\* handleBack
Back ==
  /\ home.showResults
  /\ Step(reset(store),
          [home EXCEPT !.showResults = FALSE, !.fromCache = FALSE],
          localStorage, Undefined, urlInput)
  /\ UNCHANGED <<input, out>>

\* handleChange, handlePaste: the user edits the text; useDebounce starts
\* its timer again
Type(text) ==
  /\ FormShown(home, store)
  /\ ~urlInput.effect
  /\ text # urlInput.localUrl
  /\ urlInput' = [urlInput EXCEPT !.localUrl = text]
  /\ UNCHANGED <<core, store, home, panel, localStorage, net, input, out>>

\* the timer of useDebounce fires with another value:
\* setDebouncedValue(value), and the sync effect is due
DebounceFires ==
  /\ urlInput.mounted
  /\ urlInput.localUrl # urlInput.debouncedUrl
  /\ ~urlInput.effect
  /\ urlInput' = [urlInput EXCEPT !.debouncedUrl = urlInput.localUrl,
                                  !.effect = TRUE]
  /\ UNCHANGED <<core, store, home, panel, localStorage, net, input, out>>

\* the effect of URLInput that syncs the debounced URL to the store
SyncEffect ==
  /\ urlInput.mounted
  /\ urlInput.effect
  /\ Step(setUrl(store, urlInput.debouncedUrl), home, localStorage, net,
          [urlInput EXCEPT !.effect = FALSE])
  /\ UNCHANGED <<input, out>>

\* FormatSelector, DepthSelector, AdvancedOptions: the user picks another
\* value
Pick(st) ==
  /\ FormShown(home, store)
  /\ ~urlInput.effect
  /\ st # store
  /\ input.changes < MaxChanges
  /\ Step(st, home, localStorage, net, urlInput)
  /\ input' = [input EXCEPT !.changes = @ + 1]
  /\ out' = out

SetFormat == \E f \in Formats : Pick(setFormat(store, f))

SetDepth == \E d \in Depths : Pick(setDepth(store, d))

SetSort == \E srt \in Sorts : Pick(setSort(store, srt))

SetMaxComments == \E n \in MaxCommentsChoices : Pick(setMaxComments(store, n))

SetMinScore == \E n \in MinScoreChoices : Pick(setMinScore(store, n))

\* more than CACHE_TTL minutes pass
Later ==
  /\ now + CACHE_TTL + 1 <= MaxMinutes
  /\ now' = now + CACHE_TTL + 1
  /\ UNCHANGED <<raw, options, flat, result, pc, held, aside, ui>>

\* the answers of the network and of the timer
Answers ==
  \E t \in BOOLEAN :
    \/ \E o \in ServerOutcomes : ServerResponds(o, t)
    \/ \E o \in ProxyOutcomes : ProxyResponds(o, t)
    \/ AnalyzingDone(t)

NextMine ==
  \/ Click
  \/ Answers
  \/ Back
  \/ \E text \in ThreadUrls \cup {<<>>} : Type(text)
  \/ DebounceFires
  \/ SyncEffect
  \/ SetFormat
  \/ SetDepth
  \/ SetSort
  \/ SetMaxComments
  \/ SetMinScore
  \/ Later

SpecMine == InitMine /\ [][NextMine]_vars

\* what can be in flight
InFlight ==
  {Undefined, timerRequest}
  \cup { proxyRequest(i) : i \in 1..Len(proxies) }

\* what handleMine waits for is answered: another request is in flight
\* afterwards, or the timer, or nothing
Answered ==
  /\ home.mine.pc # "idle"
  /\ net' \in InFlight \ {net}

\* ------------------------------------------------------------------------
\* One visit of the form: the page with a thread URL typed and synced, any
\* choice of the options, and the thread cached by an earlier mine under
\* these settings or not.  The form is not rendered while handleMine waits,
\* so nothing but the answers and the effects happens until it ends.
\* ------------------------------------------------------------------------
\* localStorage after a mine under the settings of `st` wrote its result
minedStorage(st) ==
  LET thread == RedditThread(st.url, st.sort)
      hm == [showResults |-> FALSE, fromCache |-> FALSE,
             mine |-> [Idle EXCEPT
                         !.cacheKey = createCacheKey(st.url, st.depth, st.sort),
                         !.result = [raw |-> Arr(thread),
                                     data |-> normalizeThread(thread, optionsOf(st)).value]]]
  IN finishes(st, hm, [k \in PageKeys |-> Null], FALSE).storage

\* the options as the store has them at first, or every one changed
OptionsPicked(st) ==
  { st,
    [st EXCEPT !.depth = "top", !.sort = "new", !.maxComments = 50,
               !.minScore = 2] }

InitRun ==
  /\ coreUnused
  /\ \E u \in ThreadUrls, f \in Formats, cached \in BOOLEAN :
     \E st \in OptionsPicked([initialState EXCEPT !.url = u, !.format = f]) :
       LET key == createCacheKey(st.url, st.depth, st.sort)
       IN /\ store = st
          /\ home = [showResults |-> FALSE, fromCache |-> cached, mine |-> Idle]
          /\ urlInput = [URLInput(st) EXCEPT !.effect = FALSE]
          /\ localStorage = IF cached THEN minedStorage(st)
                            ELSE [k \in PageKeys |-> Null]
          /\ input = [mines |-> 0, changes |-> 0,
                      under |-> [k \in PageKeys \ {HISTORY_KEY} |->
                                   IF cached /\ k = key THEN settingsOf(st)
                                   ELSE Null]]
  /\ panel = Undefined
  /\ net = Undefined
  /\ out = Undefined

NextRun ==
  \/ Click
  \/ Answers
  \/ SyncEffect

SpecRun == InitRun /\ [][NextRun]_vars

\* every network call resolves or rejects, and the timer fires: handleMine
\* does not wait for ever for what is in flight
SpecRunLive == SpecRun /\ WF_net(Answered)

\* ------------------------------------------------------------------------
\* Claims on the page
\* ------------------------------------------------------------------------
IsMessage(v) == v.type = "string" /\ v.value # ""

\* C26. After a mine failed and handleMine called setError(msg), store.error
\* stays msg, and the banner visible, until the user changes the URL text
\* or starts another mine: a step that takes the message away changes
\* store.url or is a press of the Mine button; no effect that runs by
\* itself, such as the sync effect of URLInput when the form is shown again
\* after loading, resets it.
C26_ErrorPersists ==
  [][(IsMessage(store.error) /\ store'.error # store.error)
       => (store'.url # store.url \/ input'.mines # input.mines)]_vars

\* C27. Cache consistency: whenever handleMine serves a cache hit, the data
\* it puts in the store were normalized under the url, depth, sort,
\* maxComments and minScore that are selected now.
C27_CacheConsistency ==
  (out.type = "hit") => (out.under = out.settings)

\* handleMine runs
Mining == home.mine.pc # "idle"

\* the step ends a run of handleMine: its last await is over, or the press
\* of the button was answered from the cache
EndsRun ==
  /\ home'.mine.pc = "idle"
  /\ Mining \/ input'.mines # input.mines

LoadingSteps == {"fetching", "normalizing", "analyzing"}

\* C29. Mining always settles: every run of handleMine in which each
\* network call resolves or rejects ends, and ends with isLoading = false
\* and loadingStep = 'idle', with normalizedData set (success, cache hit) or
\* error set to a message (failure); throughout, isLoading is true exactly
\* when loadingStep is 'fetching', 'normalizing' or 'analyzing', and a proxy
\* is asked only after the server-side fetch failed.
C29_MiningSettles ==
  /\ [](/\ store.isLoading <=> store.loadingStep \in LoadingSteps
        /\ Mining => store.isLoading
        /\ home.mine.pc = "proxy" => home.mine.serverFailed)
  /\ [][EndsRun =>
          /\ ~store'.isLoading
          /\ store'.loadingStep = "idle"
          /\ \/ store'.normalizedData # Null /\ home'.showResults
             \/ IsMessage(store'.error) /\ store'.normalizedData = Null]_vars
  /\ (Mining ~> ~Mining)

\* a run asked the server and the four proxies in vain and ended with the
\* message of the last proxy's failure
C29_Witness ==
  /\ input.mines >= 1
  /\ ~Mining
  /\ ~store.isLoading
  /\ store.error = Str("All fetch methods failed. Reddit may be blocking requests. Please try again later.")

\* ---------------------------------------------------------------------
\* InsightsPanel: the effect that runs the analysis of the data prop.
\* The repository holds two versions of the component: part_005 (AI
\* analysis only) and part_006 (pattern analysis, then AI analysis).
\* ---------------------------------------------------------------------

\* how many values the data prop takes
MaxData == 3

PanelVersions == {"part_005", "part_006"}

\* what analyzeComments and analyzeWithAI make of the data prop
AIAnalysisResult(d) == [type |-> "AIAnalysisResult", of |-> d]

AIInsight(d) == [type |-> "AIInsight", of |-> d]

\* the useState calls of the component; in part_005 progress is the step
\* alone and there is no pattern analysis
useStates(version) ==
  IF version = "part_005"
    THEN [analysis |-> Null, aiInsight |-> Null, isAnalyzing |-> TRUE,
          progress |-> [step |-> "Starting analysis..."], error |-> Null]
  ELSE [analysis |-> Null, aiInsight |-> Null, isAnalyzing |-> FALSE,
        progress |-> [step |-> "", percent |-> 0], error |-> Null]

\* the onProgress callback handed to analyzeWithAI: if (!cancelled) ...
onProgress(version, st, cancelled, step) ==
  IF cancelled THEN st
  ELSE IF version = "part_005" THEN [st EXCEPT !.progress = [step |-> step]]
  ELSE [st EXCEPT !.progress = [step |-> step, percent |-> 75]]

\* runAnalysis from its start to the first await that waits: the state of
\* the component, and whether a request to the AI is in flight.  Without
\* an API key analyzeWithAI returns null at once and the run ends in the
\* microtasks that follow the effect.
starts(version, st, d, key) ==
  IF version = "part_005"
    THEN LET s1 == [st EXCEPT !.isAnalyzing = TRUE, !.error = Null]
         IN IF key
              THEN [state |-> onProgress(version,
                                onProgress(version, s1, FALSE,
                                           "Scanning for founder insights..."),
                                FALSE, "AI analyzing market signals..."),
                    pc |-> "fetch"]
            ELSE [state |-> [s1 EXCEPT
                    !.error = Str("AI analysis unavailable. Try again later."),
                    !.isAnalyzing = FALSE],
                  pc |-> "done"]
  ELSE LET s1 == [st EXCEPT !.isAnalyzing = TRUE,
                            !.progress = [step |-> "Starting analysis...",
                                          percent |-> 0],
                            !.error = Null]
           \* analyzeComments has no await: its last onProgress is
           \* 'Complete!', 100
           s2 == [s1 EXCEPT !.progress = [step |-> "Complete!", percent |-> 100]]
           s3 == [s2 EXCEPT !.analysis = AIAnalysisResult(d),
                            !.progress = [step |-> "Running AI analysis...",
                                          percent |-> 50]]
       IN IF key
            THEN [state |-> onProgress(version,
                              onProgress(version, s3, FALSE,
                                         "Scanning for founder insights..."),
                              FALSE, "AI analyzing market signals..."),
                  pc |-> "fetch"]
          ELSE [state |-> [s3 EXCEPT
                  !.error = Null,
                  !.progress = [step |-> "Complete!", percent |-> 100],
                  !.isAnalyzing = FALSE],
                pc |-> "done"]

\* runAnalysis after analyzeWithAI returned aiResult, to its end
ends(version, st, cancelled, aiResult) ==
  IF version = "part_005"
    THEN IF cancelled THEN st
         ELSE IF aiResult # Null
           THEN [st EXCEPT !.aiInsight = aiResult, !.isAnalyzing = FALSE]
         ELSE [st EXCEPT
                 !.error = Str("AI analysis unavailable. Try again later."),
                 !.isAnalyzing = FALSE]
  ELSE LET s1 == IF ~cancelled /\ aiResult # Null
                   THEN [st EXCEPT !.aiInsight = aiResult]
                 ELSE IF ~cancelled THEN [st EXCEPT !.error = Null]
                 ELSE st
           s2 == [s1 EXCEPT !.progress = [step |-> "Complete!", percent |-> 100]]
       IN IF cancelled THEN s2 ELSE [s2 EXCEPT !.isAnalyzing = FALSE]

\* the cleanup of the effect: cancelled = true in the closure of the run
\* started last
cleanup(runs) ==
  IF runs = <<>> THEN runs
  ELSE [runs EXCEPT ![Len(runs)].cancelled = TRUE]

\* the component after its first render, the effect still to run, in either
\* version and with or without NEXT_PUBLIC_OPENROUTER_API_KEY
InitPanel ==
  /\ coreUnused
  /\ asideUnused
  /\ store = Undefined
  /\ home = Undefined
  /\ urlInput = Undefined
  /\ \E version \in PanelVersions, key \in BOOLEAN :
       panel = [version |-> version, key |-> key, mounted |-> TRUE,
                data |-> 1, effect |-> TRUE, state |-> useStates(version),
                runs |-> <<>>]

\* React flushes the effect: the cleanup of the run before, then
\* runAnalysis()
RunEffect ==
  /\ panel.mounted
  /\ panel.effect
  /\ LET started == starts(panel.version, panel.state, panel.data, panel.key)
     IN panel' = [panel EXCEPT
          !.effect = FALSE,
          !.state = started.state,
          !.runs = Append(cleanup(panel.runs),
                          [data |-> panel.data, cancelled |-> FALSE,
                           pc |-> started.pc])]
  /\ UNCHANGED <<core, aside, store, home, urlInput>>

\* the parent renders the panel with other data: the dependencies of the
\* effect changed
DataChanges ==
  /\ panel.mounted
  /\ ~panel.effect
  /\ panel.data < MaxData
  /\ panel' = [panel EXCEPT !.data = @ + 1, !.effect = TRUE]
  /\ UNCHANGED <<core, aside, store, home, urlInput>>

\* the panel is unmounted: React runs the cleanup and drops the state
\* updates that come afterwards
Unmount ==
  /\ panel.mounted
  /\ panel' = [panel EXCEPT !.mounted = FALSE, !.effect = FALSE,
                            !.runs = cleanup(panel.runs)]
  /\ UNCHANGED <<core, aside, store, home, urlInput>>

\* a state update of run r takes effect while the component is mounted
written(st) == IF panel.mounted THEN st ELSE panel.state

\* the request of run r to the AI is answered: the response is ok and
\* analyzeWithAI goes on to read it, or analyzeWithAI returns null
FetchAnswers(r, ok) ==
  /\ panel.runs[r].pc = "fetch"
  /\ LET run == panel.runs[r]
     IN IF ok
          THEN panel' = [panel EXCEPT
                 !.runs[r].pc = "json",
                 !.state = written(onProgress(panel.version, panel.state,
                             run.cancelled, "Extracting actionable intel..."))]
        ELSE panel' = [panel EXCEPT
               !.runs[r].pc = "done",
               !.state = written(ends(panel.version, panel.state,
                                      run.cancelled, Null))]
  /\ UNCHANGED <<core, aside, store, home, urlInput>>

\* the body of the response is read: analyzeWithAI returns the insight, or
\* null when there is no content in it
JsonAnswers(r, content) ==
  /\ panel.runs[r].pc = "json"
  /\ LET run == panel.runs[r]
         aiResult == IF content THEN AIInsight(run.data) ELSE Null
     IN panel' = [panel EXCEPT
          !.runs[r].pc = "done",
          !.state = written(ends(panel.version, panel.state, run.cancelled,
                                 aiResult))]
  /\ UNCHANGED <<core, aside, store, home, urlInput>>

NextPanel ==
  \/ RunEffect
  \/ DataChanges
  \/ Unmount
  \/ \E r \in DOMAIN panel.runs, ok \in BOOLEAN : FetchAnswers(r, ok)
  \/ \E r \in DOMAIN panel.runs, content \in BOOLEAN : JsonAnswers(r, content)

SpecPanel == InitPanel /\ [][NextPanel]_vars

\* run r took a step
Acted(r) ==
  /\ r \in DOMAIN panel'.runs
  /\ panel'.runs[r].pc # panel.runs[r].pc

\* the panel shows an AI insight
InsightShown ==
  /\ panel.mounted
  /\ ~panel.state.isAnalyzing
  /\ panel.state.aiInsight # Null
  /\ IF panel.version = "part_005" THEN panel.state.error = Null
     ELSE panel.state.analysis # Null

\* C30. In InsightsPanel a superseded analysis (one whose cleanup ran)
\* never writes its result, error, progress or isAnalyzing flag into the
\* component state, and the insight displayed comes from the analysis
\* started last, in whatever order the analyses complete.
C30_SupersededSilent ==
  /\ [][\A r \in DOMAIN panel.runs :
          (panel.runs[r].cancelled /\ Acted(r))
            => panel'.state = panel.state]_vars
  /\ [](InsightShown /\ panel.runs # <<>>
          => panel.state.aiInsight = AIInsight(panel.runs[Len(panel.runs)].data))

====
